---- MODULE Spec2Model ----
(***************************************************************************)
(* A model of twisted/spread/flavors.py: the flavors of remotely           *)
(* accessible objects of Perspective Broker.                               *)
(*                                                                         *)
(* A connection c is a pair of brokers.  The origin side holds the         *)
(* Cacheable objects and the outgoing cache of c; the peer side holds the  *)
(* RemoteCache instances and the incoming cache of c.  wire[c] carries     *)
(* what the origin sends (jellied tuples, uncache), back[c] what the peer  *)
(* sends (decache, lcache); both are FIFO.                                 *)
(*                                                                         *)
(* The broker (pb.py) and the jellier (jelly.py) are not part of the       *)
(* source at hand; their operations are modelled from the specification.   *)
(*                                                                         *)
(* Python indices are shifted by one: jellyList[1] is written jl[2].       *)
(***************************************************************************)
EXTENDS Integers, Sequences, FiniteSets, TLC

\* ------------------------------------------------------------ bounds
MaxCalls == 2
MaxDepth == 2
MaxInject == 3
MaxProxyJelly == 1
MaxViewPoints == 3
MaxReverse == 1
MaxCopies == 2
MaxDispatch == 2

\* ------------------------------------------------------------ universe
Conns == {"c1", "c2"}
Objs == {"o1", "o2"}
AllObjs == Objs \cup {"o3"}
Copyables == {"k1"}
Perspectives == {"p1", "p2"}
None == "None"
NoLuid == 0
NoObj == 0

cache_atom == "cache"
cached_atom == "cached"

\* Every LUID a connection can have handed out within the bounds.
Luids == 1..MaxCalls

VARIABLES
  remotelyCachedLUIDs,   \* origin, per connection: puid -> LUID (NoLuid: absent)
  remotelyCachedObjects, \* origin, per connection: LUID -> [object, perspective, refcount]
  currentLocalID,        \* origin, per connection: the last LUID handed out
  stack,                 \* origin: the jellyFor calls in progress, innermost last
  calls,                 \* history: every jellyFor call, in the order of invocation
  removed,               \* history: per connection and object, removals of its entry
  wire,                  \* per connection: origin -> peer
  back,                  \* per connection: peer -> origin
  locallyCachedObjects,  \* peer, per connection: LUID -> instance (NoObj: absent)
  heap,                  \* peer: the RemoteCache objects ever created
  dicts,                 \* peer: the attribute sets (__dict__) ever created
  last,                  \* peer: the outcome of the last reconstruction
  resolved,              \* origin: the outcome of the last 'lcache' resolution
  lastJelly,             \* peer: the outcome of the last RemoteCache.jellyFor
  injected,              \* tuples put on the wire by a misbehaving sender
  luids,                 \* origin, per connection: the puids of the registered references
  viewpoints,            \* origin: the ViewPoint objects ever constructed
  emitted,               \* history: the Viewable and ViewPoint serializations
  stopped,               \* history: per connection and LUID, calls of stoppedObserving
  sent,                  \* origin, per connection: what was handed to _sendMessage
  lastCall,              \* origin: the outcome of the last reverse call
  copied,                \* history: the Copyable serializations
  dispatched             \* history: the outcomes of remoteMessageReceived

vars == <<remotelyCachedLUIDs, remotelyCachedObjects, currentLocalID, stack, calls,
          removed, wire, back, locallyCachedObjects, heap, dicts, last, resolved,
          lastJelly, injected, luids, viewpoints, emitted, stopped, sent, lastCall,
          copied, dispatched>>

originVars == <<remotelyCachedLUIDs, remotelyCachedObjects, currentLocalID, stack,
                calls, removed, stopped, resolved>>
peerVars == <<locallyCachedObjects, heap, dicts, last, lastJelly>>
viewVars == <<luids, viewpoints, emitted>>
auxVars == <<sent, lastCall, copied, dispatched>>

\* ------------------------------------------------------------ objects
\* A bug: objects that compare equal are given one identity.
processUniqueIDByValue(o) == IF o = "o3" THEN "o1" ELSE o

\* Serializable.processUniqueID: id(self).
processUniqueID(o) == o

\* Copyable.getTypeToCopyFor -> getTypeToCopy: str(self.__class__).  o1 and o3
\* are two instances of one class, k1 is a Copyable that is not a Cacheable.
getTypeToCopyFor(o, p) ==
  CASE o \in {"o1", "o3"} -> "pkg.A"
    [] o = "o2" -> "pkg.B"
    [] OTHER -> "pkg.K"

\* Copyable.getStateToCopyFor -> getStateToCopy: self.__dict__.  o1 and o3 hold
\* equal attributes.
getStateToCopyFor(o, p) ==
  CASE o \in {"o1", "o3"} -> "x1"
    [] o = "o2" -> "x2"
    [] OTHER -> "y1"

\* Cacheable.getStateToCacheAndObserveFor: the default defers to getStateToCopyFor.
getStateToCacheAndObserveFor(o, p, observer) == getStateToCopyFor(o, p)

\* RemoteCacheObserver.__init__: the triple (broker, cached, perspective).
RemoteCacheObserver(c, o, p) == [broker |-> c, cached |-> o, perspective |-> p]

\* ------------------------------------------------------------ broker, origin side
NoLocal == [object |-> None, perspective |-> None, refcount |-> 0]

\* lookupOutgoing: the LUID the object is cached as on c, or none.
cachedRemotelyAs(c, o) == remotelyCachedLUIDs[c][processUniqueID(o)]

\* The tables of c after cachedRemotelyAs(o, incref): a hit is counted.
increfObjects(c, o, incref) ==
  LET luid == cachedRemotelyAs(c, o) IN
  IF luid # NoLuid /\ incref
  THEN [remotelyCachedObjects[c] EXCEPT ![luid].refcount = @ + 1]
  ELSE remotelyCachedObjects[c]

\* registerOutgoing: a new LUID, assigned monotonically, with one reference.
newLocalID(c) == currentLocalID[c] + 1

cacheRemotelyLUIDs(c, o) ==
  [remotelyCachedLUIDs[c] EXCEPT ![processUniqueID(o)] = newLocalID(c)]

cacheRemotelyObjects(c, o, p) ==
  [remotelyCachedObjects[c] EXCEPT
     ![newLocalID(c)] = [object |-> o, perspective |-> p, refcount |-> 1]]

\* The object cached remotely under a LUID (None: no such entry, a failure).
remotelyCachedForLUID(c, luid) ==
  IF luid \in Luids THEN remotelyCachedObjects[c][luid].object ELSE None

\* ------------------------------------------------------------ jellier
\* jellier.jelly(state): the state and, embedded in it, the tuples of the
\* Serializables it holds.
jelly(state, sub) == [x |-> state, sub |-> sub]

\* jellier.prepare(self): the list the tuple is built in.
prepare(o) == <<>>

\* jellier.preserve(self, l): the finished list.
preserve(o, l) == l

\* qual(inst.__class__): the name of the class of the object.
qual(o) ==
  CASE o \in {"o1", "o3"} -> "pkg.A"
    [] o = "o2" -> "pkg.B"
    [] OTHER -> "pkg.K"

\* inst.__dict__: the attributes of the object.  The classes of o2 and k1
\* override the state hook, so what they send is not their attribute set.
InstanceDict(o) ==
  CASE o \in {"o1", "o3"} -> "x1"
    [] o = "o2" -> "d2"
    [] OTHER -> "dk"

\* getInstanceState(inst, jellier): the class name and the jellied attribute
\* set of the instance.
getInstanceState(o) ==
  preserve(o, prepare(o) \o <<qual(o), jelly(InstanceDict(o), <<>>)>>)

\* ------------------------------------------------------------ Cacheable.jellyFor
Top == stack[Len(stack)]

SetTop(f) == [stack EXCEPT ![Len(stack)] = f]

NewFrame(c, o, p, mode) ==
  [id |-> Len(calls) + 1, c |-> c, o |-> o, p |-> p, pc |-> "lookup",
   luid |-> NoLuid, type |-> None, state |-> None, sub |-> <<>>, mode |-> mode]

NewCall(c, o, p) ==
  [c |-> c, o |-> o, p |-> p, epoch |-> IF c = None THEN 0 ELSE removed[c][o],
   branch |-> "none",
   luid |-> NoLuid, result |-> <<>>, observers |-> <<>>]

\* broker.serialize(object, perspective): a serialization begins while the origin
\* is idle.
Serialize(c, o, p) ==
  /\ stack = <<>>
  /\ Len(calls) < MaxCalls
  /\ stack' = <<NewFrame(c, o, p, "send")>>
  /\ calls' = Append(calls, NewCall(c, o, p))
  /\ UNCHANGED <<remotelyCachedLUIDs, remotelyCachedObjects, currentLocalID, removed, stopped,
                 wire, back, resolved, injected>>
  /\ UNCHANGED <<peerVars, viewVars, auxVars>>

\* A bug: a hook runs between the lookup and the allocation.
ReentryPointsEarly == {"alloc", "type", "state", "jelly"}

\* The places of Cacheable.jellyFor at which code of the application runs: the
\* type hook, the state hook and the jellying of the state.
ReentryPoints == {"type", "state", "jelly"}

\* A serialization begun from inside a hook of the one in progress.  Inside
\* jellier.jelly(state) it is done by the same jellier (same connection and
\* perspective) and its tuple is embedded in the state; inside the hooks it is a
\* send of its own.
Reenter(c, o, p) ==
  /\ stack # <<>>
  /\ Len(stack) < MaxDepth
  /\ Len(calls) < MaxCalls
  /\ Top.pc \in ReentryPoints
  /\ Top.pc = "jelly" => (c = Top.c /\ p = Top.p)
  /\ stack' = Append(stack, NewFrame(c, o, p, IF Top.pc = "jelly" THEN "embed" ELSE "send"))
  /\ calls' = Append(calls, NewCall(c, o, p))
  /\ UNCHANGED <<remotelyCachedLUIDs, remotelyCachedObjects, currentLocalID, removed, stopped,
                 wire, back, resolved, injected>>
  /\ UNCHANGED <<peerVars, viewVars, auxVars>>

\* luid = jellier.invoker.cachedRemotelyAs(self, 1), on the broker inv.
LookupOn(inv) ==
  LET f == Top
      luid == cachedRemotelyAs(inv, f.o) IN
  /\ stack # <<>>
  /\ f.pc = "lookup"
  /\ remotelyCachedObjects' =
       [remotelyCachedObjects EXCEPT ![inv] = increfObjects(inv, f.o, TRUE)]
  /\ stack' = SetTop([f EXCEPT !.luid = luid,
                               !.pc = IF luid = NoLuid THEN "alloc" ELSE "cached"])
  /\ calls' = [calls EXCEPT ![f.id].branch = IF luid = NoLuid THEN "full" ELSE "cached",
                            ![f.id].luid = luid]
  /\ UNCHANGED <<remotelyCachedLUIDs, currentLocalID, removed, stopped, wire, back, resolved,
                 injected>>
  /\ UNCHANGED <<peerVars, viewVars, auxVars>>

\* A bug: the smallest LUID without entry is handed out again.
AllocOnReuse(inv) ==
  LET f == Top
      free == {n \in Luids : remotelyCachedObjects[inv][n] = NoLocal}
      luid == CHOOSE n \in free : \A m \in free : n <= m IN
  /\ stack # <<>>
  /\ f.pc = "alloc"
  /\ free # {}
  /\ currentLocalID' = [currentLocalID EXCEPT ![inv] = IF luid > @ THEN luid ELSE @]
  /\ remotelyCachedLUIDs' = [remotelyCachedLUIDs EXCEPT ![inv][processUniqueID(f.o)] = luid]
  /\ remotelyCachedObjects' =
       [remotelyCachedObjects EXCEPT
          ![inv][luid] = [object |-> f.o, perspective |-> f.p, refcount |-> 1]]
  /\ stack' = SetTop([f EXCEPT !.luid = luid, !.pc = "type"])
  /\ calls' = [calls EXCEPT ![f.id].luid = luid]
  /\ UNCHANGED <<removed, stopped, wire, back, resolved, injected>>
  /\ UNCHANGED <<peerVars, viewVars, auxVars>>

\* luid = jellier.invoker.cacheRemotely(self), on the broker inv.
AllocOn(inv) ==
  LET f == Top IN
  /\ stack # <<>>
  /\ f.pc = "alloc"
  /\ currentLocalID[inv] < MaxCalls
  /\ currentLocalID' = [currentLocalID EXCEPT ![inv] = newLocalID(inv)]
  /\ remotelyCachedLUIDs' =
       [remotelyCachedLUIDs EXCEPT ![inv] = cacheRemotelyLUIDs(inv, f.o)]
  /\ remotelyCachedObjects' =
       [remotelyCachedObjects EXCEPT ![inv] = cacheRemotelyObjects(inv, f.o, f.p)]
  /\ stack' = SetTop([f EXCEPT !.luid = newLocalID(inv), !.pc = "type"])
  /\ calls' = [calls EXCEPT ![f.id].luid = newLocalID(inv)]
  /\ UNCHANGED <<removed, stopped, wire, back, resolved, injected>>
  /\ UNCHANGED <<peerVars, viewVars, auxVars>>

\* A bug: the tables of one fixed broker serve every connection.
JellyLookupShared == LookupOn("c1")

\* A bug: without a connection the hooks are called all the same, with an
\* observer of no broker.
Cacheable_jellyForNoInvokerHooked ==
  LET f == Top
      observer == RemoteCacheObserver(f.c, f.o, f.p) IN
  /\ f.pc = "lookup"
  /\ calls' = [calls EXCEPT
                 ![f.id].branch = "plain",
                 ![f.id].observers = Append(@, observer),
                 ![f.id].result =
                    <<getTypeToCopyFor(f.o, f.p),
                      jelly(getStateToCacheAndObserveFor(f.o, f.p, observer), <<>>)>>]
  /\ stack' = SubSeq(stack, 1, Len(stack) - 1)
  /\ UNCHANGED <<remotelyCachedLUIDs, remotelyCachedObjects, currentLocalID, removed, stopped,
                 wire, back, resolved, injected>>
  /\ UNCHANGED <<peerVars, viewVars, auxVars>>

\* Cacheable.jellyFor, lines 317-318: the jellier has no invoker, and jellyFor
\* returns getInstanceState(self, jellier) to its caller.
Cacheable_jellyForNoInvoker ==
  LET f == Top IN
  /\ f.pc = "lookup"
  /\ calls' = [calls EXCEPT ![f.id].branch = "plain",
                            ![f.id].result = getInstanceState(f.o)]
  /\ stack' = SubSeq(stack, 1, Len(stack) - 1)
  /\ UNCHANGED <<remotelyCachedLUIDs, remotelyCachedObjects, currentLocalID, removed, stopped,
                 wire, back, resolved, injected>>
  /\ UNCHANGED <<peerVars, viewVars, auxVars>>

\* Cacheable.jellyFor, lines 317-319: without an invoker the instance state is
\* returned, else the lookup in the cache of jellier.invoker.
JellyLookup ==
  /\ stack # <<>>
  /\ IF Top.c = None THEN Cacheable_jellyForNoInvoker ELSE LookupOn(Top.c)

\* Cacheable.jellyFor, lines 320-321: no entry, so a LUID is allocated.
JellyAlloc == stack # <<>> /\ AllocOn(Top.c)

\* Cacheable.jellyFor, lines 322-323: type_ = self.getTypeToCopyFor(p) returns.
JellyType ==
  LET f == Top IN
  /\ stack # <<>>
  /\ f.pc = "type"
  /\ stack' = SetTop([f EXCEPT !.type = getTypeToCopyFor(f.o, f.p), !.pc = "state"])
  /\ UNCHANGED <<remotelyCachedLUIDs, remotelyCachedObjects, currentLocalID, calls,
                 removed, stopped, wire, back, resolved, injected>>
  /\ UNCHANGED <<peerVars, viewVars, auxVars>>

\* Cacheable.jellyFor, lines 324-325: the observer is made and
\* self.getStateToCacheAndObserveFor(p, observer) returns.
JellyState ==
  LET f == Top
      observer == RemoteCacheObserver(f.c, f.o, f.p) IN
  /\ stack # <<>>
  /\ f.pc = "state"
  /\ stack' = SetTop([f EXCEPT !.state = getStateToCacheAndObserveFor(f.o, f.p, observer),
                               !.pc = "jelly"])
  /\ calls' = [calls EXCEPT ![f.id].observers = Append(@, observer)]
  /\ UNCHANGED <<remotelyCachedLUIDs, remotelyCachedObjects, currentLocalID,
                 removed, stopped, wire, back, resolved, injected>>
  /\ UNCHANGED <<peerVars, viewVars, auxVars>>

\* Cacheable.jellyFor, lines 326-327: jstate = jellier.jelly(state) returns.
JellyJelly ==
  LET f == Top IN
  /\ stack # <<>>
  /\ f.pc = "jelly"
  /\ stack' = SetTop([f EXCEPT !.pc = "emit"])
  /\ UNCHANGED <<remotelyCachedLUIDs, remotelyCachedObjects, currentLocalID, calls,
                 removed, stopped, wire, back, resolved, injected>>
  /\ UNCHANGED <<peerVars, viewVars, auxVars>>

\* A bug: the tuple is headed by cache_atom, which the receiving side does not
\* expect.
FullTupleTagged(f) == <<cache_atom, f.type, f.luid, jelly(f.state, f.sub)>>

\* The full-state tuple of the frame f: l.extend([type_, luid, jstate]).
FullTuple(f) == preserve(f.o, prepare(f.o) \o <<f.type, f.luid, jelly(f.state, f.sub)>>)

\* A bug: the state is sent again although the object is cached.
CachedTupleResend(f) ==
  <<getTypeToCopyFor(f.o, f.p), f.luid, jelly(getStateToCopyFor(f.o, f.p), <<>>)>>

\* The reference of the frame f: cached_atom, luid.
CachedTuple(f) == <<cached_atom, f.luid>>

\* The return of jellyFor: the tuple goes to the caller, which is the jellying of
\* the enclosing state or the sending of a message.
Return(t) ==
  LET f == Top
      rest == SubSeq(stack, 1, Len(stack) - 1) IN
  /\ calls' = [calls EXCEPT ![f.id].result = t]
  /\ IF f.mode = "embed"
     THEN /\ stack' = [rest EXCEPT ![Len(rest)].sub = Append(@, t)]
          /\ wire' = wire
     ELSE /\ stack' = rest
          /\ wire' = [wire EXCEPT ![f.c] = Append(@, t)]
  /\ UNCHANGED <<remotelyCachedLUIDs, remotelyCachedObjects, currentLocalID, removed, stopped,
                 back, resolved, injected>>
  /\ UNCHANGED <<peerVars, viewVars, auxVars>>

\* Cacheable.jellyFor, lines 328-329: the full-state tuple.
JellyEmit ==
  /\ stack # <<>>
  /\ Top.pc = "emit"
  /\ Return(FullTuple(Top))

\* A bug: a new observer is made and the state hook called for a reference.
JellyCachedRebinding ==
  /\ stack # <<>>
  /\ Top.pc = "cached"
  /\ calls' = [calls EXCEPT
                 ![Top.id].result = CachedTuple(Top),
                 ![Top.id].observers = Append(@, RemoteCacheObserver(Top.c, Top.o, Top.p))]
  /\ stack' = SubSeq(stack, 1, Len(stack) - 1)
  /\ wire' = [wire EXCEPT ![Top.c] = Append(@, CachedTuple(Top))]
  /\ UNCHANGED <<remotelyCachedLUIDs, remotelyCachedObjects, currentLocalID, removed,
                 stopped, back, resolved, injected>>
  /\ UNCHANGED <<peerVars, viewVars, auxVars>>

\* Cacheable.jellyFor, line 331: the reference to the existing cache.
JellyCached ==
  /\ stack # <<>>
  /\ Top.pc = "cached"
  /\ Return(CachedTuple(Top))

\* ------------------------------------------------------------ Copyable.jellyFor
\* A bug: a Copyable sent before goes out as a reference.
Copyable_jellyForOnce(c, o, p) ==
  IF \E i \in DOMAIN copied : copied[i].c = c /\ copied[i].o = o
  THEN <<cached_atom, 1>>
  ELSE <<getTypeToCopyFor(o, p), jelly(getStateToCopyFor(o, p), <<>>)>>

\* Copyable.jellyFor: without an invoker the instance state, else the type tag
\* and the jellied state for the perspective.
Copyable_jellyFor(c, o, p) ==
  IF c = None
  THEN getInstanceState(o)
  ELSE <<getTypeToCopyFor(o, p), jelly(getStateToCopyFor(o, p), <<>>)>>

\* A Copyable is serialized on a connection, for a perspective.
SerializeCopyable(c, o, p) ==
  /\ stack = <<>>
  /\ Len(copied) < MaxCopies
  /\ LET t == Copyable_jellyFor(c, o, p) IN
     /\ wire' = IF c = None THEN wire ELSE [wire EXCEPT ![c] = Append(@, t)]
     /\ copied' = Append(copied, [c |-> c, o |-> o, p |-> p, tuple |-> t])
  /\ UNCHANGED <<sent, lastCall, dispatched, back, injected>>
  /\ UNCHANGED <<originVars, peerVars, viewVars>>

\* Cacheable.jellyFor, lines 323-327: the type hook, the state hook or the
\* jellying of the state raises.  Nothing in jellyFor catches the exception: it
\* leaves every call in progress, and no call undoes what it has done.
JellyRaise ==
  /\ stack # <<>>
  /\ Top.pc \in ReentryPoints
  /\ stack' = <<>>
  /\ calls' = [j \in DOMAIN calls |->
                IF \E i \in DOMAIN stack : stack[i].id = j
                THEN [calls[j] EXCEPT !.result = <<"raised">>]
                ELSE calls[j]]
  /\ UNCHANGED <<remotelyCachedLUIDs, remotelyCachedObjects, currentLocalID, removed,
                 stopped, wire, back, resolved, injected>>
  /\ UNCHANGED <<peerVars, viewVars, auxVars>>

\* ------------------------------------------------------------ broker, peer side
\* The peer's tables of one connection while a tuple is reconstructed:
\* ps.cache is locallyCachedObjects[c].
Fail(ps, err) == [ps |-> ps, ok |-> FALSE, obj |-> NoObj, objs |-> <<>>, err |-> err]

Done(ps, k) == [ps |-> ps, ok |-> TRUE, obj |-> k, objs |-> <<>>, err |-> None]

\* lookupIncoming: the instance registered under the LUID, or none.
cachedLocallyAs(ps, luid) == IF luid \in DOMAIN ps.cache THEN ps.cache[luid] ELSE NoObj

\* registerIncoming fails with DuplicateCacheState if the LUID is present.
cacheLocallyFails(ps, luid) == cachedLocallyAs(ps, luid) # NoObj

cacheLocally(ps, luid, instance) == [ps EXCEPT !.cache[luid] = instance]

\* _Dummy() given a class and an attribute set: a new object.
NewObject(cls, d, role) ==
  [cls |-> cls, dict |-> d, alive |-> TRUE, dels |-> 0, notes |-> 0, jellied |-> 0,
   logged |-> 0, raised |-> FALSE,
   role |-> role]

\* The attribute set of a new instance: broker and luid are the class
\* defaults, x and sub hold the state it receives, own is an attribute its
\* constructor may have set.
EmptyDict == [broker |-> None, luid |-> NoLuid, x |-> None, sub |-> <<>>, own |-> None]

\* The type tags of the registry (unjellyableRegistry) that name a RemoteCache.
TypeTags == {"pkg.A", "pkg.B"}

\* ------------------------------------------------------------ unjellyCached
\* A bug: a reference to an unknown LUID is answered with a blank proxy.
unjellyCachedLenient(c, ps, unjellyList) ==
  LET luid == unjellyList[2]
      cNotProxy == cachedLocallyAs(ps, luid)
      d == IF cNotProxy = NoObj THEN Len(ps.dicts) + 1 ELSE ps.heap[cNotProxy].dict
      cls == IF cNotProxy = NoObj THEN None ELSE ps.heap[cNotProxy].cls
      ds == IF cNotProxy = NoObj THEN Append(ps.dicts, EmptyDict) ELSE ps.dicts IN
  Done([ps EXCEPT !.heap = Append(@, NewObject(cls, d, "proxy")), !.dicts = ds],
       Len(ps.heap) + 1)

\* A bug: the registered instance itself is handed out.
unjellyCachedSame(c, ps, unjellyList) ==
  LET cNotProxy == cachedLocallyAs(ps, unjellyList[2]) IN
  IF cNotProxy = NoObj THEN Fail(ps, "UnknownLocalId") ELSE Done(ps, cNotProxy)

\* unjellyCached: a new proxy with the class and the attribute set of the
\* instance registered under the LUID; the lookup fails when there is none.
unjellyCached(c, ps, unjellyList) ==
  LET luid == unjellyList[2]
      cNotProxy == cachedLocallyAs(ps, luid) IN
  IF cNotProxy = NoObj
  THEN Fail(ps, "UnknownLocalId")
  ELSE Done([ps EXCEPT !.heap = Append(@, NewObject(ps.heap[cNotProxy].cls,
                                                    ps.heap[cNotProxy].dict, "proxy"))],
            Len(ps.heap) + 1)

\* ------------------------------------------------------------ RemoteCache.unjellyFor
RECURSIVE unjelly(_, _, _)
RECURSIVE unjellyAll(_, _, _, _)

\* The type tags of the registry that name a RemoteCache whose setCopyableState
\* is self.__dict__.update(state).
MergeTags == {"pkg.M"}

\* A state that has keys named broker and luid of its own.
KeyedStates == {"xb"}

\* The values a state gives the attributes broker and luid: those of its own
\* keys, or none, which leaves the defaults of the class.
StateBroker(x) == IF x \in KeyedStates THEN "c2" ELSE None
StateLuid(x) == IF x \in KeyedStates THEN 2 ELSE NoLuid

\* RemoteCopy.setCopyableState: self.__dict__ = state, a new attribute set.
setCopyableState(x, objs) ==
  [broker |-> StateBroker(x), luid |-> StateLuid(x), x |-> x, sub |-> objs, own |-> None]

\* A setCopyableState that is self.__dict__.update(state): the attribute set d
\* with the keys of the state written over it.
setCopyableStateUpdate(d, x, objs) ==
  [d EXCEPT !.x = x, !.sub = objs,
            !.broker = IF x \in KeyedStates THEN StateBroker(x) ELSE @,
            !.luid = IF x \in KeyedStates THEN StateLuid(x) ELSE @]

\* setInstanceState(inst, unjellier, jellyList): the instance the unjellier made
\* is given the unjellied state as its attribute set and returned.
setInstanceState(ps, role, jellyList) ==
  LET self == Len(ps.heap) + 1
      ps1 == [ps EXCEPT
                !.heap = Append(@, NewObject(jellyList[1], Len(ps.dicts) + 1, role)),
                !.dicts = Append(@, EmptyDict)]
      r == unjellyAll(None, ps1, jellyList[2].sub, <<>>)
      d2 == Len(r.ps.dicts) + 1
      ps2 == [r.ps EXCEPT !.dicts = Append(@, setCopyableState(jellyList[2].x, r.objs)),
                          !.heap[self].dict = d2] IN
  IF ~r.ok THEN Fail(r.ps, r.err) ELSE Done(ps2, self)

\* A bug: broker and luid are not set again after the state is applied.
RemoteCache_unjellyForNoRestore(c, ps, jellyList) ==
  LET luid == jellyList[2]
      self == Len(ps.heap) + 1
      cProxy == Len(ps.heap) + 2
      d1 == Len(ps.dicts) + 1
      ps1 == [ps EXCEPT
                !.heap = @ \o <<NewObject(jellyList[1], d1, "inst"),
                                NewObject(jellyList[1], d1, "proxy")>>,
                !.dicts = Append(@, [EmptyDict EXCEPT !.broker = c, !.luid = luid])]
      ps2 == cacheLocally(ps1, luid, self)
      r == unjellyAll(c, ps2, jellyList[3].sub, <<>>)
      d2 == Len(r.ps.dicts) + 1
      ps3 == IF jellyList[1] \in MergeTags
             THEN [r.ps EXCEPT
                     !.dicts[d1] = setCopyableStateUpdate(@, jellyList[3].x, r.objs)]
             ELSE [r.ps EXCEPT
                     !.dicts = Append(@, setCopyableState(jellyList[3].x, r.objs)),
                     !.heap[self].dict = d2,
                     !.heap[cProxy].dict = d2] IN
  IF cacheLocallyFails(ps1, luid) THEN Fail(ps1, "DuplicateCacheState")
  ELSE IF ~r.ok THEN Fail(r.ps, r.err)
  ELSE Done(ps3, cProxy)

\* A bug: the state is applied before the proxy is registered.
RemoteCache_unjellyForApplyFirst(c, ps, jellyList) ==
  LET luid == jellyList[2]
      self == Len(ps.heap) + 1
      cProxy == Len(ps.heap) + 2
      d1 == Len(ps.dicts) + 1
      ps1 == [ps EXCEPT
                !.heap = @ \o <<NewObject(jellyList[1], d1, "inst"),
                                NewObject(jellyList[1], d1, "proxy")>>,
                !.dicts = Append(@, [EmptyDict EXCEPT !.broker = c, !.luid = luid])]
      r == unjellyAll(c, ps1, jellyList[3].sub, <<>>)
      d2 == Len(r.ps.dicts) + 1
      ps3 == [r.ps EXCEPT
                !.dicts = Append(@, [setCopyableState(jellyList[3].x, r.objs)
                                       EXCEPT !.broker = c, !.luid = luid]),
                !.heap[self].dict = d2,
                !.heap[cProxy].dict = d2] IN
  IF ~r.ok THEN Fail(r.ps, r.err)
  ELSE IF cacheLocallyFails(ps3, luid) THEN Fail(ps3, "DuplicateCacheState")
  ELSE Done(cacheLocally(ps3, luid, self), cProxy)

\* RemoteCache.unjellyFor: self is the instance the unjellier made for the type
\* tag.  Without an invoker (lines 414-415) it is given the instance state.
RemoteCache_unjellyFor(c, ps, jellyList) ==
  IF c = None THEN setInstanceState(ps, "restored", jellyList) ELSE
  LET luid == jellyList[2]
      self == Len(ps.heap) + 1
      cProxy == Len(ps.heap) + 2
      d1 == Len(ps.dicts) + 1
      \* lines 416-420: self.broker, self.luid; cProxy shares self.__dict__
      ps1 == [ps EXCEPT
                !.heap = @ \o <<NewObject(jellyList[1], d1, "inst"),
                                NewObject(jellyList[1], d1, "proxy")>>,
                !.dicts = Append(@, [EmptyDict EXCEPT !.broker = c, !.luid = luid])]
      \* line 425: unjellier.invoker.cacheLocally(jellyList[1], self)
      ps2 == cacheLocally(ps1, luid, self)
      \* line 426: unjellier.unjelly(jellyList[2])
      r == unjellyAll(c, ps2, jellyList[3].sub, <<>>)
      d2 == Len(r.ps.dicts) + 1
      \* lines 426-433: cProxy.setCopyableState(...), which gives cProxy a new
      \* attribute set or updates the one it shares with self; self.__dict__ =
      \* cProxy.__dict__; self.broker, self.luid
      ps3 == IF jellyList[1] \in MergeTags
             THEN [r.ps EXCEPT
                     !.dicts[d1] = [setCopyableStateUpdate(@, jellyList[3].x, r.objs)
                                      EXCEPT !.broker = c, !.luid = luid]]
             ELSE [r.ps EXCEPT
                     !.dicts = Append(@, [setCopyableState(jellyList[3].x, r.objs)
                                            EXCEPT !.broker = c, !.luid = luid]),
                     !.heap[self].dict = d2,
                     !.heap[cProxy].dict = d2] IN
  IF cacheLocallyFails(ps1, luid) THEN Fail(ps1, "DuplicateCacheState")
  ELSE IF ~r.ok THEN Fail(r.ps, r.err)
  ELSE Done(ps3, cProxy)

\* The type tags of the registry that name a RemoteCopy.
CopyTags == {"pkg.K"}

\* The attribute set of a RemoteCopy made by its constructor, which is invoked
\* with no arguments.
ConstructedDict == [EmptyDict EXCEPT !.own = "init"]

\* A bug: the state is merged into the attributes the instance has.
RemoteCopy_unjellyForMerge(c, ps, jellyList) ==
  LET self == Len(ps.heap) + 1
      d1 == Len(ps.dicts) + 1
      ps1 == [ps EXCEPT !.heap = Append(@, NewObject(jellyList[1], d1, "copy")),
                        !.dicts = Append(@, ConstructedDict)]
      r == unjellyAll(c, ps1, jellyList[2].sub, <<>>)
      ps2 == [r.ps EXCEPT !.dicts[d1].x = jellyList[2].x, !.dicts[d1].sub = r.objs] IN
  IF ~r.ok THEN Fail(r.ps, r.err) ELSE Done(ps2, self)

\* RemoteCopy.unjellyFor: self is the instance the unjellier made for the type
\* tag.  Without an invoker (lines 367-368) it is given the instance state, else
\* self.setCopyableState(unjellier.unjelly(jellyList[1])).
RemoteCopy_unjellyFor(c, ps, jellyList) ==
  IF c = None THEN setInstanceState(ps, "copy", jellyList) ELSE
  LET self == Len(ps.heap) + 1
      ps1 == [ps EXCEPT !.heap = Append(@, NewObject(jellyList[1], Len(ps.dicts) + 1, "copy")),
                        !.dicts = Append(@, ConstructedDict)]
      r == unjellyAll(c, ps1, jellyList[2].sub, <<>>)
      d2 == Len(r.ps.dicts) + 1
      ps2 == [r.ps EXCEPT !.dicts = Append(@, setCopyableState(jellyList[2].x, r.objs)),
                          !.heap[self].dict = d2] IN
  IF ~r.ok THEN Fail(r.ps, r.err) ELSE Done(ps2, self)

\* unjellier.unjelly: the registry picks the reconstruction by the tuple's head.
unjelly(c, ps, jl) ==
  IF jl[1] = cached_atom THEN unjellyCached(c, ps, jl)
  ELSE IF jl[1] \in TypeTags \cup MergeTags THEN RemoteCache_unjellyFor(c, ps, jl)
  ELSE IF jl[1] \in CopyTags THEN RemoteCopy_unjellyFor(c, ps, jl)
  ELSE Fail(ps, "InsecureJelly")

\* The tuples embedded in a state, reconstructed from left to right.
unjellyAll(c, ps, sub, acc) ==
  IF sub = <<>> THEN [Done(ps, NoObj) EXCEPT !.objs = acc]
  ELSE LET r == unjelly(c, ps, Head(sub)) IN
       IF ~r.ok THEN r ELSE unjellyAll(c, r.ps, Tail(sub), Append(acc, r.obj))

\* ------------------------------------------------------------ RemoteCache.__cmp__, __hash__
\* The builtin cmp() on two integers.
cmp(a, b) == IF a < b THEN 0 - 1 ELSE IF a > b THEN 1 ELSE 0

\* id(k.__dict__): the identity of the attribute set of the peer object k.
id_dict(h, k) == h[k].dict

\* isinstance(other, self.__class__).
isinstance(h, other, self) == h[other].cls = h[self].cls

\* RemoteCache.__cmp__: the identities of the two attribute sets are compared.
\* When other is of another class, cmp(id(self.__dict__), other) compares an
\* integer with an instance: a RemoteCache answers through its own __cmp__,
\* reflected; any other instance orders after every number.
RemoteCache_cmp(h, self, other) ==
  IF isinstance(h, other, self)
  THEN cmp(id_dict(h, self), id_dict(h, other))
  ELSE IF h[other].role = "copy" THEN 0 - 1
  ELSE 0 - cmp(id_dict(h, other), id_dict(h, self))

\* RemoteCache.__hash__: id(self.__dict__).
RemoteCache_hash(h, self) == id_dict(h, self)

\* ------------------------------------------------------------ the peer's steps
PeerState(c) == [cache |-> locallyCachedObjects[c], heap |-> heap, dicts |-> dicts]

\* proto_uncache (releaseIncoming): the entry goes and its instance loses its
\* broker.
ReleaseIncoming(c, luid) ==
  LET obj == locallyCachedObjects[c][luid] IN
  /\ locallyCachedObjects' = [locallyCachedObjects EXCEPT ![c][luid] = NoObj]
  /\ dicts' = IF obj = NoObj THEN dicts
              ELSE [dicts EXCEPT ![heap[obj].dict].broker = None]
  /\ UNCHANGED <<heap, last>>

\* The peer reconstructs the next tuple of the connection.
Receive(c) ==
  /\ wire[c] # <<>>
  /\ wire' = [wire EXCEPT ![c] = Tail(@)]
  /\ LET msg == Head(wire[c])
         r == unjelly(c, PeerState(c), msg) IN
     IF msg[1] = "uncache"
     THEN ReleaseIncoming(c, msg[2])
     ELSE /\ locallyCachedObjects' = [locallyCachedObjects EXCEPT ![c] = r.ps.cache]
          /\ heap' = r.ps.heap
          /\ dicts' = r.ps.dicts
          /\ last' = [c |-> c, msg |-> msg, ok |-> r.ok, obj |-> r.obj, err |-> r.err]
  /\ UNCHANGED <<back, injected, lastJelly>>
  /\ UNCHANGED <<originVars, viewVars, auxVars>>

\* An object no table holds can be collected.
Registered(k) == \E c \in Conns : \E n \in Luids : locallyCachedObjects[c][n] = k

\* A bug: one finalization sends the release twice.
RemoteCache_delTwice(k) ==
  LET d == dicts[heap[k].dict] IN
  IF d.broker # None
  THEN [back EXCEPT ![d.broker] = @ \o <<<<"decache", d.luid>>, <<"decache", d.luid>>>>]
  ELSE back

\* A bug: the finalization tells the origin nothing.
RemoteCache_delSilent(k) == back

\* RemoteCache.__del__: if self.broker: self.broker.decCacheRef(self.luid).
RemoteCache_del(k) ==
  LET d == dicts[heap[k].dict] IN
  IF d.broker # None
  THEN [back EXCEPT ![d.broker] = Append(@, <<"decache", d.luid>>)]
  ELSE back

\* The lifetime of a peer object ends: the collector runs its __del__, which a
\* RemoteCopy does not have.
Del(k) ==
  /\ k \in DOMAIN heap
  /\ heap[k].alive
  /\ ~Registered(k)
  /\ back' = IF heap[k].role = "copy" THEN back ELSE RemoteCache_del(k)
  /\ heap' = [heap EXCEPT ![k].alive = FALSE, ![k].dels = @ + 1,
                          ![k].notes = IF back' # back THEN @ + 1 ELSE @]
  /\ UNCHANGED <<locallyCachedObjects, dicts, last, lastJelly, wire, injected>>
  /\ UNCHANGED <<originVars, viewVars, auxVars>>

\* A bug: the failure of the release leaves the finalizer.
RemoteCache_delOutcomeRaising(k, fails) ==
  LET d == dicts[heap[k].dict] IN
  IF d.broker = None THEN [back |-> back, logged |-> 0, raised |-> FALSE]
  ELSE IF fails THEN [back |-> back, logged |-> 0, raised |-> TRUE]
  ELSE [back |-> RemoteCache_del(k), logged |-> 0, raised |-> FALSE]

\* RemoteCache.__del__ with the outcome of self.broker.decCacheRef(self.luid):
\* when it fails, the bare except logs the failure (log.deferr()) and the
\* finalizer returns.
RemoteCache_delOutcome(k, fails) ==
  LET d == dicts[heap[k].dict] IN
  IF d.broker = None THEN [back |-> back, logged |-> 0, raised |-> FALSE]
  ELSE IF fails THEN [back |-> back, logged |-> 1, raised |-> FALSE]
  ELSE [back |-> RemoteCache_del(k), logged |-> 0, raised |-> FALSE]

\* The lifetime of a proxy ends while the release operation of its broker
\* fails.
DelFail(k) ==
  /\ k \in DOMAIN heap
  /\ heap[k].alive
  /\ ~Registered(k)
  /\ heap[k].role # "copy"
  /\ dicts[heap[k].dict].broker # None
  /\ LET r == RemoteCache_delOutcome(k, TRUE) IN
     /\ back' = r.back
     /\ heap' = [heap EXCEPT ![k].alive = FALSE, ![k].dels = @ + 1,
                             ![k].logged = @ + r.logged, ![k].raised = r.raised]
  /\ UNCHANGED <<locallyCachedObjects, dicts, last, lastJelly, wire, injected>>
  /\ UNCHANGED <<originVars, viewVars, auxVars>>

\* The release path is invoked once more on an object that was finalized.
Redel(k) ==
  /\ k \in DOMAIN heap
  /\ ~heap[k].alive
  /\ heap[k].dels < 2
  /\ back' = RemoteCache_del(k)
  /\ heap' = [heap EXCEPT ![k].dels = @ + 1,
                          ![k].notes = IF back' # back THEN @ + 1 ELSE @]
  /\ UNCHANGED <<locallyCachedObjects, dicts, last, lastJelly, wire, injected>>
  /\ UNCHANGED <<originVars, viewVars, auxVars>>

\* ------------------------------------------------------------ the origin's handlers
\* proto_decache (decrementAndMaybeRelease): the count of the LUID goes down; at
\* zero the entry is removed, the object's stoppedObserving(perspective,
\* observer) is called (by default it does nothing) and the peer is told to
\* drop its own entry.
Decache(c, luid) ==
  LET l == remotelyCachedObjects[c][luid] IN
  IF l.object = None
  THEN UNCHANGED <<remotelyCachedLUIDs, remotelyCachedObjects, removed, stopped, wire>>
  ELSE IF l.refcount > 1
  THEN /\ remotelyCachedObjects' = [remotelyCachedObjects EXCEPT ![c][luid].refcount = @ - 1]
       /\ UNCHANGED <<remotelyCachedLUIDs, removed, stopped, wire>>
  ELSE /\ remotelyCachedObjects' = [remotelyCachedObjects EXCEPT ![c][luid] = NoLocal]
       /\ remotelyCachedLUIDs' =
            [remotelyCachedLUIDs EXCEPT ![c][processUniqueID(l.object)] = NoLuid]
       /\ removed' = [removed EXCEPT ![c][l.object] = @ + 1]
       /\ stopped' = [stopped EXCEPT ![c][luid] = @ + 1]
       /\ wire' = [wire EXCEPT ![c] = Append(@, <<"uncache", luid>>)]

\* unjellyLCache: obj = unjellier.invoker.remotelyCachedForLUID(luid).
unjellyLCache(c, unjellyList) == remotelyCachedForLUID(c, unjellyList[2])

\* The origin, idle, handles the next message of the peer.
HandleBack(c) ==
  /\ stack = <<>>
  /\ back[c] # <<>>
  /\ back' = [back EXCEPT ![c] = Tail(@)]
  /\ LET msg == Head(back[c]) IN
     IF msg[1] = "decache"
     THEN Decache(c, msg[2]) /\ UNCHANGED resolved
     ELSE /\ resolved' = [c |-> c, luid |-> msg[2], obj |-> unjellyLCache(c, msg)]
          /\ UNCHANGED <<remotelyCachedLUIDs, remotelyCachedObjects, removed, stopped, wire>>
  /\ UNCHANGED <<currentLocalID, stack, calls, injected>>
  /\ UNCHANGED <<peerVars, viewVars, auxVars>>

\* ------------------------------------------------------------ reverse calls
\* RemoteCacheMethod.__init__: name, broker, cached, perspective.
RemoteCacheMethod(name, broker, cached, perspective) ==
  [name |-> name, broker |-> broker, cached |-> cached, perspective |-> perspective]

\* broker._sendMessage('cache', perspective, cacheID, name, args, kw): the
\* message handed to the connection.
sendMessage(perspective, cacheID, name, args) == <<"cache", perspective, cacheID, name, args>>

\* A bug: the message is sent without looking the object up.
RemoteCacheObserver_callRemoteUnchecked(observer, name, args) ==
  [ok |-> TRUE, err |-> None,
   msg |-> sendMessage(observer.perspective, cachedRemotelyAs(observer.broker, observer.cached),
                       name, args)]

\* RemoteCacheObserver.callRemote(name, *args): the object is looked up, without
\* counting a reference, in the outgoing cache of the observer's broker.
RemoteCacheObserver_callRemote(observer, name, args) ==
  LET cacheID == cachedRemotelyAs(observer.broker, observer.cached) IN
  IF cacheID = NoLuid
  THEN [ok |-> FALSE, err |-> "ProtocolError", msg |-> <<>>]
  ELSE [ok |-> TRUE, err |-> None,
        msg |-> sendMessage(observer.perspective, cacheID, name, args)]

\* RemoteCacheMethod.__call__(*args): the same with the method's own name.
RemoteCacheMethod_call(method, args) ==
  LET cacheID == cachedRemotelyAs(method.broker, method.cached) IN
  IF cacheID = NoLuid
  THEN [ok |-> FALSE, err |-> "ProtocolError", msg |-> <<>>]
  ELSE [ok |-> TRUE, err |-> None,
        msg |-> sendMessage(method.perspective, cacheID, method.name, args)]

\* The observer of (c, o, p) exists once a first transmission of o on c for p
\* has reached line 324.
ObserverMade(c, o, p) ==
  \E j \in DOMAIN calls :
    /\ calls[j].c = c /\ calls[j].o = o /\ calls[j].p = p
    /\ calls[j].branch = "full"
    /\ \A i \in DOMAIN stack : stack[i].id = j => stack[i].pc \notin {"alloc", "type"}

\* The application makes a reverse call, from a hook or while the origin is
\* idle: through the observer it was given or through a RemoteCacheMethod.
ReverseCall(c, o, p, via) ==
  /\ lastCall.n < MaxReverse
  /\ stack # <<>> => Top.pc \in ReentryPoints
  /\ via = "observer" => ObserverMade(c, o, p)
  /\ LET r == IF via = "observer"
              THEN RemoteCacheObserver_callRemote(RemoteCacheObserver(c, o, p), "update", <<"a">>)
              ELSE RemoteCacheMethod_call(RemoteCacheMethod("update", c, o, p), <<"a">>) IN
     /\ sent' = IF r.ok THEN [sent EXCEPT ![c] = Append(@, r.msg)] ELSE sent
     /\ lastCall' = [c |-> c, o |-> o, p |-> p, via |-> via, ok |-> r.ok, err |-> r.err,
                     msg |-> r.msg, n |-> lastCall.n + 1]
  /\ UNCHANGED <<copied, dispatched, wire, back, injected>>
  /\ UNCHANGED <<originVars, peerVars, viewVars>>

\* ------------------------------------------------------------ RemoteCache.jellyFor
\* A bug: the proxy is sent like a Cacheable of the peer's own, state and all.
RemoteCache_jellyForCopy(k, invoker) ==
  LET d == dicts[heap[k].dict] IN
  [ok |-> TRUE, tuple |-> <<heap[k].cls, d.luid, jelly(d.x, <<>>)>>]

\* A bug: the proxy is sent as a reference on whatever connection.
RemoteCache_jellyForAnyBroker(k, invoker) ==
  [ok |-> TRUE, tuple |-> <<"lcache", dicts[heap[k].dict].luid>>]

\* RemoteCache.jellyFor under a connection: only for the broker the proxy is
\* for, and then as the reference ('lcache', self.luid).
RemoteCache_jellyFor(k, invoker) ==
  LET d == dicts[heap[k].dict] IN
  IF invoker # d.broker
  THEN [ok |-> FALSE, tuple |-> <<"AssertionError">>]
  ELSE [ok |-> TRUE, tuple |-> <<"lcache", d.luid>>]

\* The peer serializes one of its proxies under the broker of a connection.
ProxyJelly(k, invoker) ==
  /\ k \in DOMAIN heap
  /\ heap[k].alive
  /\ heap[k].role = "proxy"
  /\ heap[k].jellied < MaxProxyJelly
  /\ LET r == RemoteCache_jellyFor(k, invoker) IN
     /\ lastJelly' = [k |-> k, c |-> invoker, ok |-> r.ok, tuple |-> r.tuple]
     /\ back' = IF r.ok THEN [back EXCEPT ![invoker] = Append(@, r.tuple)] ELSE back
  /\ heap' = [heap EXCEPT ![k].jellied = @ + 1]
  /\ UNCHANGED <<locallyCachedObjects, dicts, last, wire, injected>>
  /\ UNCHANGED <<originVars, viewVars, auxVars>>

\* ------------------------------------------------------------ an arbitrary sender
\* What a sender, well behaved or not, may put on the wire: the full state of a
\* LUID (once or again), a reference to a LUID (sent or not), the word that an
\* entry is to go.
InjectTuples ==
  {<<cached_atom, n>> : n \in 1..2}
    \cup {<<"pkg.A", n, jelly("x1", <<>>)>> : n \in 1..2}
    \cup {<<"uncache", 1>>}

\* Full states for the two kinds of setCopyableState, with and without keys
\* named broker and luid, with and without a reference embedded.
BookTuples ==
  {<<tag, n, jelly(x, sub)>> :
     tag \in {"pkg.A"} \cup MergeTags, n \in 1..2, x \in {"x1"} \cup KeyedStates,
     sub \in {<<>>, <<<<cached_atom, 1>>>>}}

\* What an unjellier without invoker is given: the class name and the state of
\* a RemoteCache or of a RemoteCopy, the state with or without keys named
\* broker and luid.
PlainTuples ==
  {<<tag, jelly(x, <<>>)>> : tag \in {"pkg.A"} \cup CopyTags, x \in {"x1"} \cup KeyedStates}

\* An unjellier without invoker reconstructs a tuple: there is no connection
\* and no cache.
Unpersist(t) ==
  /\ injected < MaxInject
  /\ injected' = injected + 1
  /\ LET r == unjelly(None, [cache |-> <<>>, heap |-> heap, dicts |-> dicts], t) IN
     /\ heap' = r.ps.heap
     /\ dicts' = r.ps.dicts
     /\ last' = [c |-> None, msg |-> t, ok |-> r.ok, obj |-> r.obj, err |-> r.err]
  /\ UNCHANGED <<locallyCachedObjects, lastJelly, wire, back>>
  /\ UNCHANGED <<originVars, viewVars, auxVars>>

Inject(c, t) ==
  /\ injected < MaxInject
  /\ injected' = injected + 1
  /\ wire' = [wire EXCEPT ![c] = Append(@, t)]
  /\ UNCHANGED <<back>>
  /\ UNCHANGED <<originVars, viewVars, auxVars>>
  /\ UNCHANGED <<peerVars, viewVars, auxVars>>

\* ------------------------------------------------------------ Referenceable, ViewPoint, Viewable
Viewables == {"v1", "v2"}

\* broker.serializingPerspective: a perspective, or None when there is none.
ViewPerspectives == {"p1", None}

\* ViewPoint.__init__(perspective, object).
ViewPoint(perspective, object) == [perspective |-> perspective, object |-> object]

\* The builtin id() of a perspective or a Viewable.
Id(x) == x

\* Serializable.processUniqueID, which a ViewPoint would inherit: id(self), where
\* k is the identity of the ViewPoint object.
ViewPoint_processUniqueIDInherited(k, vp) == <<"self", ToString(k)>>

\* ViewPoint.processUniqueID: (id(self.perspective), id(self.object)).
ViewPoint_processUniqueID(k, vp) == <<Id(vp.perspective), Id(vp.object)>>

\* registerReference(object) -> RefId: one RefId per processUniqueID on a
\* connection; luids[c][r] is the puid registered as r.
Registered_As(c, puid) == {r \in DOMAIN luids[c] : luids[c][r] = puid}

registerReference(c, puid) ==
  IF Registered_As(c, puid) # {} THEN CHOOSE r \in Registered_As(c, puid) : TRUE
  ELSE Len(luids[c]) + 1

registerReferenceTable(c, puid) ==
  IF Registered_As(c, puid) # {} THEN luids[c] ELSE Append(luids[c], puid)

\* Referenceable.jellyFor: "remote", jellier.invoker.registerReference(self).
Referenceable_jellyFor(c, k, vp) ==
  <<"remote", registerReference(c, ViewPoint_processUniqueID(k, vp))>>

\* Viewable.jellyFor:
\* ViewPoint(jellier.invoker.serializingPerspective, self).jellyFor(jellier).
Viewable_jellyFor(c, v, serializingPerspective) ==
  LET k == Len(viewpoints) + 1
      vp == ViewPoint(serializingPerspective, v) IN
  [ok |-> TRUE, k |-> k, vp |-> vp, tuple |-> Referenceable_jellyFor(c, k, vp)]

\* The application makes a ViewPoint of its own.
MakeViewPoint(p, v) ==
  /\ Len(viewpoints) < MaxViewPoints
  /\ viewpoints' = Append(viewpoints, ViewPoint(p, v))
  /\ UNCHANGED <<luids, emitted, wire, back, injected>>
  /\ UNCHANGED <<originVars, peerVars, auxVars>>

\* A ViewPoint is serialized on a connection.
SerializeViewPoint(c, k) ==
  /\ k \in DOMAIN viewpoints
  /\ LET vp == viewpoints[k] IN
     /\ luids' = [luids EXCEPT ![c] = registerReferenceTable(c, ViewPoint_processUniqueID(k, vp))]
     /\ emitted' = emitted \cup
          {[c |-> c, p |-> vp.perspective, v |-> vp.object, via |-> "viewpoint",
            ok |-> TRUE, tuple |-> Referenceable_jellyFor(c, k, vp)]}
  /\ UNCHANGED <<viewpoints, wire, back, injected>>
  /\ UNCHANGED <<originVars, peerVars, auxVars>>

\* A Viewable is serialized on a connection whose broker serializes for p.
SerializeViewable(c, v, p) ==
  /\ Len(viewpoints) < MaxViewPoints
  /\ LET r == Viewable_jellyFor(c, v, p) IN
     /\ viewpoints' = IF r.ok THEN Append(viewpoints, r.vp) ELSE viewpoints
     /\ luids' = IF r.ok
                 THEN [luids EXCEPT ![c] =
                         registerReferenceTable(c, ViewPoint_processUniqueID(r.k, r.vp))]
                 ELSE luids
     /\ emitted' = emitted \cup
          {[c |-> c, p |-> p, v |-> v, via |-> "viewable", ok |-> r.ok, tuple |-> r.tuple]}
  /\ UNCHANGED <<wire, back, injected>>
  /\ UNCHANGED <<originVars, peerVars, auxVars>>

\* The first Viewable of a run is serialized.
SerializeFirstViewable(c, v, p) ==
  /\ viewpoints = <<>>
  /\ SerializeViewable(c, v, p)

\* ------------------------------------------------------------ remoteMessageReceived
\* The objects that receive remote messages and the methods they have, each
\* with the number of arguments it accepts: a Referenceable r1, a Viewable v1
\* behind the ViewPoint vp1, a RemoteCache rc1.
Methods(obj) ==
  CASE obj = "r1" -> {[name |-> "remote_echo", arity |-> 1],
                      [name |-> "remote_add", arity |-> 2],
                      [name |-> "view_own", arity |-> 1],
                      [name |-> "own", arity |-> 0]}
    [] obj = "v1" -> {[name |-> "view_echo", arity |-> 2],
                      [name |-> "view_add", arity |-> 3],
                      [name |-> "remote_own", arity |-> 1]}
    [] obj = "vp1" -> {[name |-> "view_own", arity |-> 1],
                       [name |-> "remote_echo", arity |-> 1]}
    [] obj = "rc1" -> {[name |-> "observe_echo", arity |-> 1],
                       [name |-> "observe_add", arity |-> 2],
                       [name |-> "remote_own", arity |-> 0]}
    [] OTHER -> {}

Messages == {"echo", "add", "own", "lost"}

\* The arguments as they arrive, jellied.
WireArgs == {<<>>, <<"ja">>, <<"ja", "jb">>}

NoAttr == [owner |-> None, name |-> None, arity |-> 0]

\* getattr(obj, name): the bound method, or AttributeError (NoAttr).
getattr(obj, name) ==
  IF \E m \in Methods(obj) : m.name = name
  THEN LET m == CHOOSE m \in Methods(obj) : m.name = name IN
       [owner |-> obj, name |-> name, arity |-> m.arity]
  ELSE NoAttr

\* broker.unserialize(args, perspective): each argument decoded.
unserialize(args, perspective) ==
  [i \in DOMAIN args |-> IF args[i] = "ja" THEN "a" ELSE "b"]

\* What a method returns when applied: it tells how it was called.
HandlerResult(method, args) == <<"result", method.owner, method.name, args>>

\* broker.serialize(state, perspective): the reply, encoded for the perspective.
serialize(state, perspective) == <<"answer", perspective, state>>

\* The outcomes of remoteMessageReceived.
Raised(err, printed, under) ==
  [ok |-> FALSE, err |-> err, invoked |-> <<>>, printed |-> printed, reply |-> <<>>,
   under |-> under]

Replied(method, args, printed, perspective) ==
  [ok |-> TRUE, err |-> None, invoked |-> <<[method |-> method, args |-> args]>>,
   printed |-> printed, under |-> perspective,
   reply |-> serialize(HandlerResult(method, args), perspective)]

\* apply(method, args) inside try/except TypeError: a method given a wrong
\* number of arguments raises TypeError, which is printed and raised again.
Apply(method, callArgs, args, perspective) ==
  IF Len(callArgs) # method.arity
  THEN Raised("TypeError", <<[method |-> method, args |-> args]>>, perspective)
  ELSE Replied(method, callArgs, <<>>, perspective)

\* A bug: a missing method is answered with None.
Referenceable_remoteMessageReceivedLenient(self, broker, message, args) ==
  LET a == unserialize(args, None)
      method == getattr(self, "remote_" \o message) IN
  IF method = NoAttr
  THEN [ok |-> TRUE, err |-> None, invoked |-> <<>>, printed |-> <<>>, under |-> None,
        reply |-> serialize(None, None)]
  ELSE Apply(method, a, a, None)

\* Referenceable.remoteMessageReceived; Referenceable.perspective is None.
Referenceable_remoteMessageReceived(self, broker, message, args) ==
  LET a == unserialize(args, None)
      method == getattr(self, "remote_" \o message) IN
  IF method = NoAttr THEN Raised("AttributeError", <<>>, None)
  ELSE Apply(method, a, a, None)

\* A bug: the method is looked up on the ViewPoint and the perspective comes
\* last.
ViewPoint_remoteMessageReceivedOnSelf(vp, broker, message, args) ==
  LET a == unserialize(args, vp.perspective)
      method == getattr(vp.self, "view_" \o message) IN
  IF method = NoAttr THEN Raised("AttributeError", <<>>, vp.perspective)
  ELSE Apply(method, a \o <<vp.perspective>>, a, vp.perspective)

\* ViewPoint.remoteMessageReceived: the method of self.object, called with
\* (self.perspective,) + args.
ViewPoint_remoteMessageReceived(vp, broker, message, args) ==
  LET a == unserialize(args, vp.perspective)
      method == getattr(vp.object, "view_" \o message) IN
  IF method = NoAttr THEN Raised("AttributeError", <<>>, vp.perspective)
  ELSE Apply(method, <<vp.perspective>> \o a, a, vp.perspective)

\* A bug: the TypeError is swallowed and None is the reply.
RemoteCache_remoteMessageReceivedSwallow(self, broker, message, args) ==
  LET a == unserialize(args, None)
      method == getattr(self, "observe_" \o message) IN
  IF method = NoAttr THEN Raised("AttributeError", <<>>, None)
  ELSE IF Len(a) # method.arity
  THEN [ok |-> TRUE, err |-> None, invoked |-> <<>>, printed |-> <<>>, under |-> None,
        reply |-> serialize(None, None)]
  ELSE Replied(method, a, <<>>, None)

\* A bug: a RemoteCache answers to the prefix of a Referenceable.
RemoteCache_remoteMessageReceivedRemotePrefix(self, broker, message, args) ==
  LET a == unserialize(args, None)
      method == getattr(self, "remote_" \o message) IN
  IF method = NoAttr THEN Raised("AttributeError", <<>>, None)
  ELSE Apply(method, a, a, None)

\* RemoteCache.remoteMessageReceived.
RemoteCache_remoteMessageReceived(self, broker, message, args) ==
  LET a == unserialize(args, None)
      method == getattr(self, "observe_" \o message) IN
  IF method = NoAttr THEN Raised("AttributeError", <<>>, None)
  ELSE Apply(method, a, a, None)

\* The receivers of the three kinds.
Receivers(kind) ==
  CASE kind = "referenceable" -> {[self |-> "r1", perspective |-> None, object |-> None]}
    [] kind = "viewpoint" ->
         {[self |-> "vp1", perspective |-> p, object |-> "v1"] : p \in Perspectives}
    [] OTHER -> {[self |-> "rc1", perspective |-> None, object |-> None]}

\* The broker of a connection hands a message to the object it is for.
Dispatch(c, kind, rcv, message, args) ==
  /\ Len(dispatched) < MaxDispatch
  /\ rcv \in Receivers(kind)
  /\ LET out == CASE kind = "referenceable" ->
                       Referenceable_remoteMessageReceived(rcv.self, c, message, args)
                  [] kind = "viewpoint" ->
                       ViewPoint_remoteMessageReceived(rcv, c, message, args)
                  [] OTHER ->
                       RemoteCache_remoteMessageReceived(rcv.self, c, message, args) IN
     dispatched' = Append(dispatched, [kind |-> kind, rcv |-> rcv, message |-> message,
                                       args |-> args, out |-> out])
  /\ UNCHANGED <<sent, lastCall, copied, wire, back, injected>>
  /\ UNCHANGED <<originVars, peerVars, viewVars>>

\* ------------------------------------------------------------ specifications
Init ==
  /\ remotelyCachedLUIDs = [c \in Conns |-> [o \in AllObjs |-> NoLuid]]
  /\ remotelyCachedObjects = [c \in Conns |-> [n \in Luids |-> NoLocal]]
  /\ currentLocalID = [c \in Conns |-> 0]
  /\ stack = <<>>
  /\ calls = <<>>
  /\ removed = [c \in Conns |-> [o \in AllObjs |-> 0]]
  /\ wire = [c \in Conns |-> <<>>]
  /\ back = [c \in Conns |-> <<>>]
  /\ locallyCachedObjects = [c \in Conns |-> [n \in Luids |-> NoObj]]
  /\ heap = <<>>
  /\ dicts = <<>>
  /\ last = [c |-> None, msg |-> <<>>, ok |-> TRUE, obj |-> NoObj, err |-> None]
  /\ resolved = [c |-> None, luid |-> NoLuid, obj |-> None]
  /\ lastJelly = [k |-> NoObj, c |-> None, ok |-> TRUE, tuple |-> <<>>]
  /\ injected = 0
  /\ luids = [c \in Conns |-> <<>>]
  /\ viewpoints = <<>>
  /\ emitted = {}
  /\ stopped = [c \in Conns |-> [n \in Luids |-> 0]]
  /\ sent = [c \in Conns |-> <<>>]
  /\ lastCall = [c |-> None, o |-> None, p |-> None, via |-> None, ok |-> TRUE,
                 err |-> None, msg |-> <<>>, n |-> 0]
  /\ copied = <<>>
  /\ dispatched = <<>>

JellyStep ==
  \/ JellyLookup
  \/ JellyAlloc
  \/ JellyType
  \/ JellyState
  \/ JellyJelly
  \/ JellyEmit
  \/ JellyCached

Next ==
  \/ \E c \in Conns, o \in Objs, p \in Perspectives : Serialize(c, o, p)
  \/ \E c \in Conns, o \in Objs, p \in Perspectives : Reenter(c, o, p)
  \/ JellyStep
  \/ \E c \in Conns : Receive(c)
  \/ \E c \in Conns : HandleBack(c)
  \/ \E k \in DOMAIN heap : Del(k)
  \/ \E k \in DOMAIN heap, c \in Conns : ProxyJelly(k, c)

Spec == Init /\ [][Next]_vars

\* The release path may be invoked again on a finalized proxy.
NextRedel == Next \/ \E k \in DOMAIN heap : Redel(k)

SpecRedel == Init /\ [][NextRedel]_vars

\* The cache protocol with the reverse calls of the application.
NextCall ==
  \/ \E c \in Conns, o \in Objs, p \in Perspectives : Serialize(c, o, p)
  \/ JellyStep
  \/ \E c \in Conns : Receive(c)
  \/ \E c \in Conns : HandleBack(c)
  \/ \E k \in DOMAIN heap : Del(k)
  \/ \E c \in Conns, o \in Objs, p \in Perspectives, via \in {"observer", "method"} :
       ReverseCall(c, o, p, via)

SpecCall == Init /\ [][NextCall]_vars

\* Serializations whose hooks may raise.
NextRaise ==
  \/ \E c \in Conns, o \in Objs, p \in Perspectives : Serialize(c, o, p)
  \/ \E c \in Conns, o \in Objs, p \in Perspectives : Reenter(c, o, p)
  \/ JellyStep
  \/ JellyRaise
  \/ \E c \in Conns : Receive(c)

SpecRaise == Init /\ [][NextRaise]_vars

\* What the flavors put on the wire and what the peer makes of it, with the
\* brokers serializing for one perspective.
NextWire ==
  \/ \E c \in Conns, o \in Objs : Serialize(c, o, "p1")
  \/ JellyStep
  \/ \E c \in Conns, o \in Copyables : SerializeCopyable(c, o, "p1")
  \/ \E c \in Conns, v \in Viewables : SerializeFirstViewable(c, v, "p1")
  \/ \E c \in Conns : Receive(c)

SpecWire == Init /\ [][NextWire]_vars

\* The cache protocol with two Cacheables that compare equal, o1 and o3.
NextEqual ==
  \/ \E c \in Conns, o \in AllObjs : Serialize(c, o, "p1")
  \/ \E c \in Conns, o \in AllObjs : Reenter(c, o, "p1")
  \/ JellyStep
  \/ \E c \in Conns : Receive(c)
  \/ \E c \in Conns : HandleBack(c)
  \/ \E k \in DOMAIN heap : Del(k)

SpecEqual == Init /\ [][NextEqual]_vars

\* The dispatch of the messages received.
Kinds == {"referenceable", "viewpoint", "remotecache"}

NextDispatch ==
  \E kind \in Kinds, message \in Messages, args \in WireArgs :
    \E rcv \in Receivers(kind) : Dispatch("c1", kind, rcv, message, args)

SpecDispatch == Init /\ [][NextDispatch]_vars

\* The cache protocol with its scheduling: a serialization that has begun runs
\* to its end, each connection delivers what was sent on it, in both
\* directions, and the peer's collector finalizes the proxies that nothing
\* holds.
NextLive ==
  \/ \E c \in Conns, o \in Objs : Serialize(c, o, "p1")
  \/ JellyStep
  \/ \E c \in Conns : Receive(c)
  \/ \E c \in Conns : HandleBack(c)
  \/ \E k \in DOMAIN heap : Del(k)

Fairness ==
  /\ WF_vars(JellyStep)
  /\ \A c \in Conns : WF_vars(Receive(c))
  /\ \A c \in Conns : WF_vars(HandleBack(c))
  /\ WF_vars(\E k \in DOMAIN heap : Del(k))

SpecLive == Init /\ [][NextLive]_vars /\ Fairness

\* The peer's side of the connections, whatever the sender puts on the wire.
NextPeer ==
  \/ \E c \in Conns, t \in InjectTuples : Inject(c, t)
  \/ \E c \in Conns : Receive(c)
  \/ \E k \in DOMAIN heap : Del(k)
  \/ \E k \in DOMAIN heap, c \in Conns : ProxyJelly(k, c)

SpecPeer == Init /\ [][NextPeer]_vars

\* The peer's side of one connection receiving full states.
NextBook ==
  \/ \E t \in BookTuples : Inject("c1", t)
  \/ Receive("c1")
  \/ \E k \in DOMAIN heap : Del(k)

SpecBook == Init /\ [][NextBook]_vars

\* The peer's side with a release operation that may fail.
NextFail ==
  \/ \E c \in Conns, t \in InjectTuples : Inject(c, t)
  \/ \E c \in Conns : Receive(c)
  \/ \E k \in DOMAIN heap : Del(k)
  \/ \E k \in DOMAIN heap : DelFail(k)

SpecFail == Init /\ [][NextFail]_vars

\* Serialization and reconstruction with and without a connection.
NextPlain ==
  \/ \E c \in {"c1", None}, o \in Objs :
       Serialize(c, o, IF c = None THEN None ELSE "p1")
  \/ JellyStep
  \/ \E c \in {"c1", None}, o \in Copyables :
       SerializeCopyable(c, o, IF c = None THEN None ELSE "p1")
  \/ \E t \in PlainTuples : Unpersist(t)
  \/ \E k \in DOMAIN heap : Del(k)

SpecPlain == Init /\ [][NextPlain]_vars

\* Serializations of Viewables and ViewPoints.
NextView ==
  \/ \E p \in ViewPerspectives, v \in Viewables : MakeViewPoint(p, v)
  \/ \E c \in Conns, k \in DOMAIN viewpoints : SerializeViewPoint(c, k)
  \/ \E c \in Conns, v \in Viewables, p \in ViewPerspectives : SerializeViewable(c, v, p)

SpecView == Init /\ [][NextView]_vars

\* ------------------------------------------------------------ claims
SameObject(a, b) == a.c = b.c /\ a.o = b.o

\* Calls of one object on one connection between two removals of its entry.
SameEntry(a, b) == SameObject(a, b) /\ a.epoch = b.epoch

IsFull(t, luid) == Len(t) = 3 /\ t[1] \in TypeTags /\ t[2] = luid /\ t[3].x \in {"x1", "x2"}

\* C1, as stated: over any sequence of jellyFor calls for one object on one
\* connection, every call after the first returns (cached_atom, LUID) with the
\* LUID of the first.
C1_LaterCallsAlwaysCached ==
  \A i, j \in DOMAIN calls :
    (i < j /\ SameObject(calls[i], calls[j]) /\ calls[j].result # <<>>)
      => calls[j].result = <<cached_atom, calls[i].luid>>

\* C1, amended: the first call for an object on a connection since its entry was
\* last removed returns the full-state tuple with a LUID greater than every LUID
\* the connection handed out before; every later call, as long as the entry has
\* not been removed, returns (cached_atom, LUID) with that same LUID and no state.
C1_FirstFullThenCached ==
  \A j \in DOMAIN calls :
    LET earlier == {i \in 1..(j - 1) : SameEntry(calls[i], calls[j])}
        call == calls[j] IN
    call.branch # "none" =>
      IF earlier = {}
      THEN /\ call.branch = "full"
           /\ \A i \in 1..(j - 1) :
                (calls[i].c = call.c /\ call.luid # NoLuid) => calls[i].luid < call.luid
           /\ call.result # <<>> => IsFull(call.result, call.luid)
      ELSE /\ call.branch = "cached"
           /\ \A i \in earlier : calls[i].luid = call.luid
           /\ call.result # <<>> => call.result = <<cached_atom, call.luid>>

\* C1, witness: a full-state tuple, then the reference to it, both returned.
C1_Witness ==
  /\ Len(calls) = 2
  /\ SameEntry(calls[1], calls[2])
  /\ IsFull(calls[1].result, 1)
  /\ calls[2].result = <<cached_atom, 1>>

\* The frame has taken the branch of the first transmission.
FirstTransmission(f) == f.pc \in {"alloc", "type", "state", "jelly", "emit"}

\* C2: of the serializations of one object on one connection that are in
\* progress at once, at most one is in the branch of the first transmission,
\* they all carry one LUID, and between two removals of the entry the full
\* state is sent at most once.
C2_OneFirstTransmission ==
  /\ \A i, j \in DOMAIN stack :
       (i < j /\ SameObject(stack[i], stack[j])) =>
         /\ ~(FirstTransmission(stack[i]) /\ FirstTransmission(stack[j]))
         /\ stack[j].luid # NoLuid => stack[j].luid = stack[i].luid
  /\ \A i, j \in DOMAIN calls :
       (i < j /\ SameEntry(calls[i], calls[j])) =>
         ~(calls[i].branch = "full" /\ calls[j].branch = "full")

\* C2, witness: inside the state hook of the first transmission, a second
\* serialization of the object has found the LUID.
C2_Witness ==
  /\ Len(stack) = 2
  /\ SameObject(stack[1], stack[2])
  /\ stack[1].pc = "state"
  /\ stack[2].pc = "cached"

\* The outgoing cache of a connection.
Outgoing(c) == <<remotelyCachedLUIDs[c], remotelyCachedObjects[c], currentLocalID[c]>>

\* C3: while an object is serialized on one connection, the outgoing cache of
\* every other connection stays as it is; the lookup is decided by the
\* connection's own table and the LUID comes from its own counter; and the first
\* serialization of an object on a connection is a full-state transmission,
\* whatever the other connections hold.
C3_OwnCacheOnly ==
  /\ [][\A c \in Conns :
          /\ (stack # <<>> /\ Top.c # c) => Outgoing(c)' = Outgoing(c)
          /\ (stack # <<>> /\ Top.c = c /\ Top.pc = "lookup" /\ Len(stack') = Len(stack)
                /\ stack'[Len(stack)].pc # "lookup")
               => (stack'[Len(stack)].pc = "alloc" <=> remotelyCachedLUIDs[c][Top.o] = NoLuid)
          /\ (stack # <<>> /\ Top.c = c /\ Top.pc = "alloc" /\ Len(stack') = Len(stack)
                /\ stack'[Len(stack)].pc # "alloc")
               => /\ stack'[Len(stack)].luid = currentLocalID[c] + 1
                  /\ currentLocalID'[c] = currentLocalID[c] + 1
                  /\ remotelyCachedLUIDs'[c][Top.o] = currentLocalID[c] + 1]_vars
  /\ [](\A j \in DOMAIN calls :
          (calls[j].branch # "none"
             /\ \A i \in 1..(j - 1) : ~SameObject(calls[i], calls[j]))
            => calls[j].branch = "full")

\* C3, witness: an object sent on one connection has been sent in full, with a
\* LUID, on the other.
C3_Witness ==
  /\ Len(calls) = 2
  /\ calls[1].o = calls[2].o
  /\ calls[1].c = "c1" /\ calls[2].c = "c2"
  /\ IsFull(calls[1].result, 1)
  /\ IsFull(calls[2].result, 1)
  /\ remotelyCachedLUIDs["c2"][calls[2].o] = 1

\* The step is the reconstruction of the next tuple of connection c.
Receiving(c) == wire[c] # <<>> /\ wire'[c] = Tail(wire[c]) /\ Head(wire[c])[1] # "uncache"

\* C4: the reconstruction of (cached_atom, LUID) for a LUID the incoming cache
\* has no entry for fails with UnknownLocalId: no proxy is returned, no object is
\* made and the incoming cache stays as it is.
C4_UnknownLocalId ==
  [][\A c \in Conns :
       (Receiving(c) /\ Head(wire[c])[1] = cached_atom
          /\ locallyCachedObjects[c][Head(wire[c])[2]] = NoObj)
         => /\ ~last'.ok
            /\ last'.err = "UnknownLocalId"
            /\ last'.obj = NoObj
            /\ locallyCachedObjects' = locallyCachedObjects
            /\ heap' = heap
            /\ dicts' = dicts]_vars

\* C4, witness: a reference to a LUID without entry has been received.
C4_Witness ==
  /\ last.msg # <<>>
  /\ last.msg[1] = cached_atom
  /\ last.err = "UnknownLocalId"
  /\ locallyCachedObjects[last.c][last.msg[2]] = NoObj

\* C5: a full-state tuple for a LUID the incoming cache holds fails with
\* DuplicateCacheState: the entry is not replaced, no attribute set that existed
\* is changed and the state received is installed in none.
C5_DuplicateCacheState ==
  [][\A c \in Conns :
       (Receiving(c) /\ Head(wire[c])[1] \in TypeTags
          /\ locallyCachedObjects[c][Head(wire[c])[2]] # NoObj)
         => /\ ~last'.ok
            /\ last'.err = "DuplicateCacheState"
            /\ last'.obj = NoObj
            /\ locallyCachedObjects' = locallyCachedObjects
            /\ \A d \in DOMAIN dicts' :
                 IF d \in DOMAIN dicts THEN dicts'[d] = dicts[d] ELSE dicts'[d].x = None]_vars

\* C5, witness: the full state of a LUID has been received a second time.
C5_Witness ==
  /\ last.msg # <<>>
  /\ last.msg[1] \in TypeTags
  /\ last.err = "DuplicateCacheState"
  /\ locallyCachedObjects[last.c][last.msg[2]] # NoObj

\* C6, as stated: a proxy whose release path has been invoked, once or more,
\* has sent exactly one release notification.
C6_ReleasedExactlyOnce ==
  \A k \in DOMAIN heap :
    (heap[k].role = "proxy" /\ heap[k].dels > 0) => heap[k].notes = 1

\* The step is the reconstruction of a reference to a LUID that has an entry.
ReceivingCached(c) ==
  /\ Receiving(c)
  /\ Head(wire[c])[1] = cached_atom
  /\ locallyCachedObjects[c][Head(wire[c])[2]] # NoObj

\* C7, as stated: the reference to a LUID with an entry yields the registered
\* instance itself and no new object.
C7_SameInstance ==
  [][\A c \in Conns :
       ReceivingCached(c)
         => /\ last'.ok
            /\ last'.obj = locallyCachedObjects[c][Head(wire[c])[2]]
            /\ heap' = heap
            /\ dicts' = dicts]_vars

\* C7, amended: the reference to a LUID with an entry yields a new proxy object,
\* of the class of the registered instance and sharing its attribute set; the
\* registered instance is not returned; no attribute set, no other object and no
\* entry of the incoming cache changes.
C7_NewProxySharingState ==
  [][\A c \in Conns :
       ReceivingCached(c)
         => LET cNotProxy == locallyCachedObjects[c][Head(wire[c])[2]] IN
            /\ last'.ok
            /\ last'.obj = Len(heap) + 1
            /\ last'.obj # cNotProxy
            /\ Len(heap') = Len(heap) + 1
            /\ SubSeq(heap', 1, Len(heap)) = heap
            /\ heap'[last'.obj].dict = heap[cNotProxy].dict
            /\ heap'[last'.obj].cls = heap[cNotProxy].cls
            /\ dicts' = dicts
            /\ locallyCachedObjects' = locallyCachedObjects]_vars

\* C7, witness: a reference has been reconstructed into a proxy that shares the
\* attribute set of the registered instance.
C7_Witness ==
  /\ last.msg # <<>>
  /\ last.msg[1] = cached_atom
  /\ last.ok
  /\ locallyCachedObjects[last.c][last.msg[2]] # NoObj
  /\ heap[last.obj].dict = heap[locallyCachedObjects[last.c][last.msg[2]]].dict

\* The full-state transmissions of the origin on a connection.
FullCalls(c) == {j \in DOMAIN calls : calls[j].c = c /\ calls[j].branch = "full"}

\* C8: a proxy serialized under the connection it was received on goes out as
\* ('lcache', LUID) with its own LUID and nothing else: no state, no new LUID,
\* no change of a cache table; and the origin resolves the reference to the
\* object it sent in full under that LUID.
C8_ProxyRoundTrip ==
  /\ [][\A k \in DOMAIN heap, c \in Conns :
          (k \in DOMAIN heap' /\ heap'[k].jellied # heap[k].jellied
             /\ lastJelly'.c = c /\ dicts[heap[k].dict].broker = c)
            => /\ lastJelly'.ok
               /\ lastJelly'.tuple = <<"lcache", dicts[heap[k].dict].luid>>
               /\ back' = [back EXCEPT ![c] = Append(@, lastJelly'.tuple)]
               /\ \A b \in Conns : Outgoing(b)' = Outgoing(b)
               /\ locallyCachedObjects' = locallyCachedObjects
               /\ dicts' = dicts]_vars
  /\ [](resolved.c # None =>
          \E j \in FullCalls(resolved.c) :
            calls[j].luid = resolved.luid /\ calls[j].o = resolved.obj)

\* C8, witness: the proxy made from the full state of an object has been
\* serialized and the origin has resolved the reference to that object.
C8_Witness ==
  /\ resolved.c # None
  /\ resolved.obj \in Objs
  /\ lastJelly.ok
  /\ lastJelly.tuple = <<"lcache", resolved.luid>>
  /\ \E j \in FullCalls(resolved.c) : calls[j].o = resolved.obj /\ calls[j].luid = resolved.luid

\* C9, as stated: a Viewable serialized while the broker has no serializing
\* perspective fails with CannotViewWithoutContext, without a wire form and
\* without a ViewPoint registered.
C9_FailsWithoutContext ==
  /\ \A e \in emitted : (e.via = "viewable" /\ e.p = None) => ~e.ok
  /\ \A c \in Conns : \A r \in DOMAIN luids[c] :
       luids[c][r][1] = Id(None) =>
         \E e \in emitted : e.via = "viewpoint" /\ e.c = c /\ e.p = None

\* C10: on one connection, the serialization of a Viewable under a perspective
\* and the serialization of any ViewPoint made of that perspective and that
\* Viewable yield one and the same tuple ("remote", RefId), and serializations
\* for different pairs yield different tuples.
C10_ViewableAsViewPoint ==
  \A e1, e2 \in emitted :
    e1.c = e2.c =>
      /\ e1.ok /\ e1.tuple[1] = "remote"
      /\ (e1.p = e2.p /\ e1.v = e2.v) <=> (e1.tuple = e2.tuple)

\* C10, witness: a Viewable and a ViewPoint made apart for the same pair, and a
\* third serialization for another pair, on one connection.
C10_Witness ==
  \E e1, e2, e3 \in emitted :
    /\ e1.c = e2.c /\ e2.c = e3.c
    /\ e1.via = "viewable" /\ e2.via = "viewpoint"
    /\ e1.p = e2.p /\ e1.v = e2.v
    /\ e1.p # None
    /\ (e3.p # e1.p \/ e3.v # e1.v)

\* The step is a reverse call.
Calling == lastCall'.n # lastCall.n

\* C11: a reverse call, through the observer or through a RemoteCacheMethod, on
\* an object without entry in the outgoing cache of the connection fails with
\* ProtocolError and hands nothing to _sendMessage; with an entry, exactly one
\* 'cache' message with the LUID of the entry is handed to _sendMessage of that
\* connection; either way no table and no reference count changes.
C11_ReverseCall ==
  [][Calling =>
       LET c == lastCall'.c
           luid == remotelyCachedLUIDs[c][lastCall'.o] IN
       /\ \A b \in Conns : Outgoing(b)' = Outgoing(b)
       /\ wire' = wire
       /\ IF luid = NoLuid
          THEN /\ ~lastCall'.ok
               /\ lastCall'.err = "ProtocolError"
               /\ sent' = sent
          ELSE /\ lastCall'.ok
               /\ sent' = [sent EXCEPT ![c] =
                             Append(@, <<"cache", lastCall'.p, luid, "update", <<"a">>>>)]]_vars

\* C11, witness: the observer of an object was used after the entry of the
\* object had been removed, and the call failed.
C11_Witness ==
  /\ lastCall.n > 0
  /\ lastCall.via = "observer"
  /\ ~lastCall.ok
  /\ removed[lastCall.c][lastCall.o] > 0
  /\ remotelyCachedLUIDs[lastCall.c][lastCall.o] = NoLuid

\* C11, witness of the other case: a 'cache' message was sent for an entry.
C11_WitnessSent ==
  /\ lastCall.n > 0
  /\ lastCall.ok
  /\ Len(sent[lastCall.c]) = 1
  /\ sent[lastCall.c][1][3] = remotelyCachedLUIDs[lastCall.c][lastCall.o]

\* C12, as stated: when a first transmission has failed after the LUID was
\* allocated, the outgoing cache holds no entry for the object, and no later
\* serialization of the object answers with a reference to the state that was
\* never sent.
C12_AtomicFailure ==
  \A j \in DOMAIN calls :
    (calls[j].result = <<"raised">> /\ calls[j].branch = "full")
      => /\ remotelyCachedLUIDs[calls[j].c][calls[j].o] # calls[j].luid
         /\ \A i \in DOMAIN calls :
              (j < i /\ SameObject(calls[j], calls[i])) =>
                ~(calls[i].branch = "cached" /\ calls[i].luid = calls[j].luid)

\* C13: when the full state of a LUID without entry is received, the instance
\* is registered under the LUID before the state is decoded: every reference
\* to that same LUID nested in the state is resolved, to a proxy of the class
\* of the instance that carries the LUID, and the reconstruction does not fail.
C13_RegisteredBeforeApplied ==
  [][\A c \in Conns :
       (Receiving(c) /\ Head(wire[c])[1] \in TypeTags
          /\ locallyCachedObjects[c][Head(wire[c])[2]] = NoObj)
         => LET msg == Head(wire[c])
                n == msg[2]
                sub == msg[3].sub
                self == Len(heap) + 1 IN
            (\A i \in DOMAIN sub : sub[i] = <<cached_atom, n>>)
              => /\ last'.ok
                 /\ last'.obj = self + 1
                 /\ locallyCachedObjects'[c][n] = self
                 /\ Len(heap') = Len(heap) + 2 + Len(sub)
                 /\ \A i \in DOMAIN sub :
                      /\ heap'[self + 1 + i].cls = msg[1]
                      /\ dicts'[heap'[self + 1 + i].dict].luid = n
                      /\ dicts'[heap'[self + 1 + i].dict].broker = c]_vars

\* C13, witness: a full state that holds a reference to its own LUID has been
\* reconstructed.
C13_Witness ==
  /\ last.msg # <<>>
  /\ last.msg[1] \in TypeTags
  /\ last.ok
  /\ Len(last.msg[3].sub) > 0
  /\ last.msg[3].sub[1] = <<cached_atom, last.msg[2]>>
  /\ locallyCachedObjects[last.c][last.msg[2]] # NoObj

\* The results of the Cacheable serializations that returned a tuple.
Returned == {j \in DOMAIN calls : calls[j].result \notin {<<>>, <<"raised">>}}

\* C14, as stated: the first transmission of a Cacheable is (full-cache-tag,
\* typeTag, LUID, state) and a Copyable is (copy-tag, typeTag, state).
C14_TaggedLayout ==
  /\ \A j \in Returned :
       calls[j].branch = "full" =>
         /\ Len(calls[j].result) = 4
         /\ calls[j].result[1] = cache_atom
         /\ calls[j].result[3] = calls[j].luid
  /\ \A i \in DOMAIN copied :
       /\ Len(copied[i].tuple) = 3
       /\ copied[i].tuple[1] = "copy"

\* C14, amended: the first transmission of a Cacheable is (typeTag, LUID,
\* state), headed by the type tag itself; its later transmissions are
\* (cached_atom, LUID); a Copyable is (typeTag, state); a Referenceable is
\* ("remote", RefId).  The receiving side takes the LUID from the second place
\* and the state from the third place of a Cacheable's tuple, and the state from
\* the second place of a Copyable's, which is where the sender put them.
C14_Layout ==
  /\ [](/\ \A j \in Returned :
            LET t == calls[j].result
                o == calls[j].o IN
            IF calls[j].branch = "full"
            THEN /\ Len(t) = 3
                 /\ t[1] = getTypeToCopyFor(o, calls[j].p)
                 /\ t[2] = calls[j].luid
                 /\ t[3].x = getStateToCopyFor(o, calls[j].p)
            ELSE t = <<cached_atom, calls[j].luid>>
        /\ \A i \in DOMAIN copied :
            LET t == copied[i].tuple IN
            /\ Len(t) = 2
            /\ t[1] = getTypeToCopyFor(copied[i].o, copied[i].p)
            /\ t[2].x = getStateToCopyFor(copied[i].o, copied[i].p)
        /\ \A e \in emitted :
            /\ Len(e.tuple) = 2
            /\ e.tuple[1] = "remote"
            /\ e.tuple[2] \in DOMAIN luids[e.c])
  /\ [][\A c \in Conns :
          Receiving(c) =>
            LET msg == Head(wire[c]) IN
            /\ (\E j \in Returned : calls[j].c = c /\ calls[j].branch = "full"
                                     /\ calls[j].result = msg)
                 => /\ last'.ok
                    /\ heap'[last'.obj].cls = msg[1]
                    /\ dicts'[heap'[last'.obj].dict].luid = msg[2]
                    /\ dicts'[heap'[last'.obj].dict].x = msg[3].x
                    /\ locallyCachedObjects'[c][msg[2]] = last'.obj - 1
            /\ (\E i \in DOMAIN copied : copied[i].c = c /\ copied[i].tuple = msg)
                 => /\ last'.ok
                    /\ heap'[last'.obj].cls = msg[1]
                    /\ dicts'[heap'[last'.obj].dict].x = msg[2].x
                    /\ locallyCachedObjects' = locallyCachedObjects]_vars

\* C14, witness: a full state, a reference, a copy and a remote reference have
\* been produced, and the full state has been reconstructed with its LUID.
C14_Witness ==
  /\ \E j \in Returned : calls[j].branch = "full"
  /\ \E j \in Returned : calls[j].branch = "cached"
  /\ copied # <<>>
  /\ emitted # {}
  /\ last.msg # <<>>
  /\ last.msg[1] \in TypeTags
  /\ last.ok
  /\ dicts[heap[last.obj].dict].luid = last.msg[2]

\* The step is the serialization of a Copyable.
Copying == Len(copied') = Len(copied) + 1

\* C20: every serialization of a Copyable that is no Cacheable puts its type
\* tag and its whole state on the wire, however often it was sent before, and
\* changes nothing of the outgoing cache of any connection: no LUID is
\* allocated, no entry is made, no reference is counted, no entry is removed.
C20_CopyEveryTime ==
  /\ [](\A i \in DOMAIN copied :
          copied[i].tuple = <<getTypeToCopyFor(copied[i].o, copied[i].p),
                              jelly(getStateToCopyFor(copied[i].o, copied[i].p), <<>>)>>)
  /\ [][Copying =>
          /\ \A c \in Conns : Outgoing(c)' = Outgoing(c)
          /\ removed' = removed
          /\ stopped' = stopped
          /\ LET e == copied'[Len(copied')] IN
             wire' = [wire EXCEPT ![e.c] = Append(@, e.tuple)]]_vars

\* C20, witness: one Copyable has been sent twice on one connection, and a
\* Cacheable has an entry in the outgoing cache of that connection.
C20_Witness ==
  /\ Len(copied) = 2
  /\ copied[1].c = copied[2].c
  /\ copied[1].o = copied[2].o
  /\ currentLocalID[copied[1].c] > 0

\* The objects equal by value: same class, same attributes.
EqualByValue(a, b) ==
  /\ getTypeToCopyFor(a, "p1") = getTypeToCopyFor(b, "p1")
  /\ getStateToCopyFor(a, "p1") = getStateToCopyFor(b, "p1")

\* C15: in the outgoing cache of a connection no two objects have one LUID,
\* the entry of a LUID names the one object that has the LUID, every
\* serialization in progress carries the LUID of its own object, and two
\* serializations of different objects on one connection, equal by value or
\* not, never carry one LUID.
C15_OneLuidPerIdentity ==
  \A c \in Conns :
    /\ \A a, b \in AllObjs :
         (a # b /\ remotelyCachedLUIDs[c][a] # NoLuid)
           => remotelyCachedLUIDs[c][a] # remotelyCachedLUIDs[c][b]
    /\ \A n \in Luids : \A a \in AllObjs :
         remotelyCachedLUIDs[c][a] = n <=> remotelyCachedObjects[c][n].object = a
    /\ \A i \in DOMAIN stack :
         (stack[i].c = c /\ stack[i].luid # NoLuid)
           => remotelyCachedObjects[c][stack[i].luid].object = stack[i].o
    /\ \A i, j \in DOMAIN calls :
         (calls[i].c = c /\ calls[j].c = c /\ calls[i].o # calls[j].o
            /\ calls[i].luid # NoLuid)
           => calls[i].luid # calls[j].luid

\* C15, witness: two objects equal by value have been sent in full on one
\* connection and hold two entries with different LUIDs.
C15_Witness ==
  \E c \in Conns :
    /\ EqualByValue("o1", "o3")
    /\ remotelyCachedLUIDs[c]["o1"] # NoLuid
    /\ remotelyCachedLUIDs[c]["o3"] # NoLuid
    /\ remotelyCachedLUIDs[c]["o1"] # remotelyCachedLUIDs[c]["o3"]
    /\ \E i, j \in Returned :
         /\ calls[i].c = c /\ calls[i].o = "o1" /\ calls[i].branch = "full"
         /\ calls[j].c = c /\ calls[j].o = "o3" /\ calls[j].branch = "full"

\* The proxies of LUID n of connection c that the peer still holds.
ProxiesHeld(c, n) ==
  {k \in DOMAIN heap :
     /\ heap[k].alive
     /\ heap[k].role = "proxy"
     /\ dicts[heap[k].dict].broker = c
     /\ dicts[heap[k].dict].luid = n}

\* C16: stoppedObserving is called for a LUID at most once, and only in the
\* step in which the release of the peer's last proxy takes the reference count
\* from one to zero; the entry of the LUID is removed in that very step, and
\* an entry is never removed without the call.  While the peer holds a proxy of
\* the LUID, the entry is there and the hook has not been called.
C16_StoppedAtLastRelease ==
  /\ [](\A c \in Conns : \A n \in Luids :
          /\ stopped[c][n] <= 1
          /\ stopped[c][n] = 1 =>
               /\ remotelyCachedObjects[c][n] = NoLocal
               /\ \E j \in FullCalls(c) : calls[j].luid = n
          /\ ProxiesHeld(c, n) # {} =>
               /\ stopped[c][n] = 0
               /\ remotelyCachedObjects[c][n].refcount >= Cardinality(ProxiesHeld(c, n)))
  /\ [][\A c \in Conns : \A n \in Luids :
          /\ stopped'[c][n] # stopped[c][n] =>
               /\ back[c] # <<>>
               /\ Head(back[c]) = <<"decache", n>>
               /\ remotelyCachedObjects[c][n].refcount = 1
               /\ remotelyCachedObjects'[c][n] = NoLocal
               /\ remotelyCachedLUIDs'[c][remotelyCachedObjects[c][n].object] = NoLuid
          /\ (remotelyCachedObjects[c][n] # NoLocal /\ remotelyCachedObjects'[c][n] = NoLocal)
               => stopped'[c][n] = stopped[c][n] + 1]_vars

\* C16, witness: an object was sent in full and once more as a reference, the
\* peer dropped both proxies, and the hook has been called.
C16_Witness ==
  \E c \in Conns : \E n \in Luids :
    /\ stopped[c][n] = 1
    /\ Len(calls) = 2
    /\ calls[1].c = c /\ calls[1].luid = n /\ calls[1].branch = "full"
    /\ calls[2].c = c /\ calls[2].luid = n /\ calls[2].branch = "cached"
    /\ Cardinality({k \in DOMAIN heap : heap[k].role = "proxy" /\ heap[k].notes = 1}) = 2

\* The dispatches of one kind.
Dispatched(kind) == {i \in DOMAIN dispatched : dispatched[i].kind = kind}

\* The object has a method of that name.
Has(obj, name) == \E m \in Methods(obj) : m.name = name

\* The object has a method of that name that accepts n arguments.
Accepts(obj, name, n) == \E m \in Methods(obj) : m.name = name /\ m.arity = n

\* The arguments received, decoded.
Decoded(args) == [i \in DOMAIN args |-> IF args[i] = "ja" THEN "a" ELSE "b"]

\* C17: a message to a Referenceable is answered by its method remote_<message>
\* and by no other.  Without such a method the call fails (AttributeError),
\* no method is called and there is no reply; with it, that method is called
\* once with the decoded arguments and what it returns is serialized as the
\* reply.
C17_ReferenceableDispatch ==
  \A i \in Dispatched("referenceable") :
    LET d == dispatched[i]
        name == "remote_" \o d.message IN
    /\ ~Has(d.rcv.self, name) =>
         /\ ~d.out.ok
         /\ d.out.err = "AttributeError"
         /\ d.out.invoked = <<>>
         /\ d.out.reply = <<>>
    /\ Accepts(d.rcv.self, name, Len(d.args)) =>
         /\ d.out.ok
         /\ Len(d.out.invoked) = 1
         /\ d.out.invoked[1].method.owner = d.rcv.self
         /\ d.out.invoked[1].method.name = name
         /\ d.out.invoked[1].args = Decoded(d.args)
         /\ d.out.reply = <<"answer", None, <<"result", d.rcv.self, name, Decoded(d.args)>>>>

\* C17, witness: a message without method has failed (although the object has
\* a method of the bare name), and a message with method has been answered.
C17_Witness ==
  \E i, j \in Dispatched("referenceable") :
    /\ dispatched[i].message = "own"
    /\ Has(dispatched[i].rcv.self, "own")
    /\ dispatched[i].out.err = "AttributeError"
    /\ dispatched[j].message = "add"
    /\ dispatched[j].out.ok

\* C18: a message to a ViewPoint is answered by the method view_<message> of
\* the object the ViewPoint wraps, whatever methods the ViewPoint has itself;
\* the method is called with the perspective of the ViewPoint first and the
\* decoded arguments after it, in the order received; the arguments are
\* decoded and the reply is encoded for that perspective.
C18_ViewPointDispatch ==
  \A i \in Dispatched("viewpoint") :
    LET d == dispatched[i]
        name == "view_" \o d.message IN
    /\ d.out.under = d.rcv.perspective
    /\ ~Has(d.rcv.object, name) =>
         /\ ~d.out.ok
         /\ d.out.invoked = <<>>
         /\ d.out.reply = <<>>
    /\ Accepts(d.rcv.object, name, Len(d.args) + 1) =>
         /\ d.out.ok
         /\ Len(d.out.invoked) = 1
         /\ d.out.invoked[1].method.owner = d.rcv.object
         /\ d.out.invoked[1].method.name = name
         /\ d.out.invoked[1].args = <<d.rcv.perspective>> \o Decoded(d.args)
         /\ d.out.reply =
              <<"answer", d.rcv.perspective,
                <<"result", d.rcv.object, name, <<d.rcv.perspective>> \o Decoded(d.args)>>>>

\* C18, witness: a method of the wrapped object has been called with two
\* arguments after the perspective, and a message for which only the ViewPoint
\* has a method has failed.
C18_Witness ==
  \E i, j \in Dispatched("viewpoint") :
    /\ dispatched[i].message = "add"
    /\ dispatched[i].out.ok
    /\ dispatched[i].out.invoked[1].args = <<dispatched[i].rcv.perspective, "a", "b">>
    /\ dispatched[j].message = "own"
    /\ Has(dispatched[j].rcv.self, "view_own")
    /\ ~dispatched[j].out.ok

\* The prefix of the method names of a kind of receiver.
Prefix(kind) ==
  CASE kind = "referenceable" -> "remote_"
    [] kind = "viewpoint" -> "view_"
    [] OTHER -> "observe_"

\* C19: in each of the three entry points, when the method found does not
\* accept the number of arguments received, the TypeError leaves the entry
\* point: the method and the arguments received are printed, there is no reply.
C19_ArityMismatchSurfaced ==
  \A i \in DOMAIN dispatched :
    LET d == dispatched[i]
        name == Prefix(d.kind) \o d.message
        obj == IF d.kind = "viewpoint" THEN d.rcv.object ELSE d.rcv.self
        n == IF d.kind = "viewpoint" THEN Len(d.args) + 1 ELSE Len(d.args) IN
    (Has(obj, name) /\ ~Accepts(obj, name, n)) =>
      /\ ~d.out.ok
      /\ d.out.err = "TypeError"
      /\ d.out.reply = <<>>
      /\ d.out.invoked = <<>>
      /\ Len(d.out.printed) = 1
      /\ d.out.printed[1].method.name = name
      /\ d.out.printed[1].method.owner = obj
      /\ d.out.printed[1].args = Decoded(d.args)

\* C19, witness: a RemoteCache and a ViewPoint have each been sent a message
\* with the wrong number of arguments.
C19_Witness ==
  \E i \in Dispatched("remotecache"), j \in Dispatched("viewpoint") :
    /\ dispatched[i].out.err = "TypeError"
    /\ dispatched[j].out.err = "TypeError"

\* C21: getStateToCacheAndObserveFor is called once in every full-state
\* transmission, with the observer (connection, object, perspective of that
\* serialization), and in no serialization that answers with a reference: the
\* one observer of an entry is the one of its full-state transmission.
C21_ObserverOncePerFullState ==
  \A j \in DOMAIN calls :
    LET call == calls[j] IN
    /\ Len(call.observers) <= 1
    /\ \A i \in DOMAIN call.observers :
         call.observers[i] = [broker |-> call.c, cached |-> call.o, perspective |-> call.p]
    /\ call.branch = "cached" => call.observers = <<>>
    /\ (j \in Returned /\ call.branch = "full") => Len(call.observers) = 1
    /\ \A i \in DOMAIN stack :
         stack[i].id = j => (Len(call.observers) = 1 <=> stack[i].pc \in {"jelly", "emit"})

\* C21, witness: an object was sent in full for one perspective and then as a
\* reference for another; the only observer is the one of the first.
C21_Witness ==
  /\ Len(calls) = 2
  /\ Returned = {1, 2}
  /\ SameEntry(calls[1], calls[2])
  /\ calls[1].p # calls[2].p
  /\ calls[1].observers = <<RemoteCacheObserver(calls[1].c, calls[1].o, calls[1].p)>>
  /\ calls[2].branch = "cached"
  /\ calls[2].observers = <<>>

\* C22, as stated: every reverse call handed to _sendMessage of a connection
\* names a LUID whose full-state tuple has been produced on that connection.
C22_NotBeforeTransmitted ==
  \A c \in Conns : \A i \in DOMAIN sent[c] :
    \E j \in Returned :
      /\ calls[j].c = c
      /\ calls[j].branch = "full"
      /\ calls[j].luid = sent[c][i][3]

\* C23: when the peer finalizes every proxy it holds and the releases are
\* delivered, every entry of the outgoing cache is eventually removed, with the
\* reference count at zero and stoppedObserving called.
C23_EventuallyStopped ==
  \A c \in Conns : \A n \in Luids :
    (remotelyCachedObjects[c][n] # NoLocal)
      ~> (/\ remotelyCachedObjects[c][n] = NoLocal
          /\ stopped[c][n] = 1
          /\ \A o \in Objs : remotelyCachedLUIDs[c][o] # n)

\* C23, witness: the entry of a LUID is gone and the hook was called after the
\* peer had finalized the two proxies made for it.
C23_Witness ==
  \E c \in Conns : \E n \in Luids :
    /\ stopped[c][n] = 1
    /\ remotelyCachedObjects[c][n] = NoLocal
    /\ Cardinality({k \in DOMAIN heap : heap[k].role = "proxy" /\ ~heap[k].alive}) = 2
    /\ \A k \in DOMAIN heap : heap[k].role = "proxy" => ~heap[k].alive
    /\ back[c] = <<>>

\* C24: on a connection the LUIDs of the full-state transmissions grow
\* strictly in the order of the transmissions, and the counter they come from
\* never goes back; the first serialization of an object after its entry was
\* removed is a full-state transmission again, with a LUID greater than every
\* LUID the connection has handed out, the object's former one included.
C24_LuidsNeverReused ==
  /\ [](\A i, j \in DOMAIN calls :
          (i < j /\ calls[i].c = calls[j].c /\ calls[j].branch = "full"
             /\ calls[j].luid # NoLuid)
            => calls[i].luid < calls[j].luid \/ calls[i].branch = "cached")
  /\ [](\A j \in DOMAIN calls :
          (calls[j].epoch > 0 /\ calls[j].branch # "none"
             /\ \A i \in 1..(j - 1) : ~SameEntry(calls[i], calls[j]))
            => /\ calls[j].branch = "full"
               /\ \A i \in 1..(j - 1) :
                    (calls[i].c = calls[j].c /\ calls[j].luid # NoLuid)
                      => calls[i].luid < calls[j].luid)
  /\ [][\A c \in Conns :
          /\ currentLocalID'[c] >= currentLocalID[c]
          /\ currentLocalID'[c] # currentLocalID[c] =>
               /\ currentLocalID'[c] = currentLocalID[c] + 1
               /\ remotelyCachedObjects[c][currentLocalID'[c]] = NoLocal
               /\ remotelyCachedObjects'[c][currentLocalID'[c]].refcount = 1]_vars

\* C24, witness: an object was sent in full, its entry was removed, and it has
\* been sent in full again on the same connection with the next LUID.
C24_Witness ==
  /\ Len(calls) = 2
  /\ SameObject(calls[1], calls[2])
  /\ calls[2].epoch = 1
  /\ IsFull(calls[1].result, 1)
  /\ IsFull(calls[2].result, 2)

\* The step is the serialization of the proxy k.
ProxyJellying(k) == k \in DOMAIN heap /\ heap'[k].jellied # heap[k].jellied

\* C25: a proxy serialized under a connection that is not the broker it
\* records fails the assertion: nothing is sent on any connection and nothing
\* changes but the outcome; hence every ('lcache', LUID) sent on a connection
\* is the outcome of serializing, under that connection, a proxy that recorded
\* that connection and that LUID.
C25_OnlyOwnConnection ==
  /\ [][\A k \in DOMAIN heap :
          (ProxyJellying(k) /\ lastJelly'.c # dicts[heap[k].dict].broker)
            => /\ ~lastJelly'.ok
               /\ lastJelly'.tuple = <<"AssertionError">>
               /\ back' = back
               /\ wire' = wire
               /\ dicts' = dicts
               /\ locallyCachedObjects' = locallyCachedObjects]_vars
  /\ [][\A c \in Conns :
          (Len(back'[c]) > Len(back[c]) /\ back'[c][Len(back'[c])][1] = "lcache")
            => \E k \in DOMAIN heap :
                 /\ ProxyJellying(k)
                 /\ dicts[heap[k].dict].broker = c
                 /\ dicts[heap[k].dict].luid = back'[c][Len(back'[c])][2]
                 /\ locallyCachedObjects[c][dicts[heap[k].dict].luid] # NoObj]_vars

\* C25, witness: a proxy received on one connection was serialized under the
\* other and failed.
C25_Witness ==
  /\ lastJelly.k # NoObj
  /\ ~lastJelly.ok
  /\ dicts[heap[lastJelly.k].dict].broker \in Conns
  /\ dicts[heap[lastJelly.k].dict].broker # lastJelly.c
  /\ back[lastJelly.c] = <<>>

\* C26: the reconstruction of the tuple of a Copyable returns the instance made
\* for the type tag, and the attribute set of that instance is the state the
\* Copyable gave, whole and alone: what the instance had before is gone, and
\* the instance belongs to no cache.
C26_CopyRoundTrip ==
  [][\A c \in Conns :
       (Receiving(c) /\ \E i \in DOMAIN copied : copied[i].c = c /\ copied[i].tuple = Head(wire[c]))
         => LET self == Len(heap) + 1
                i == CHOOSE i \in DOMAIN copied :
                       copied[i].c = c /\ copied[i].tuple = Head(wire[c]) IN
            /\ last'.ok
            /\ last'.obj = self
            /\ Len(heap') = Len(heap) + 1
            /\ heap'[self].role = "copy"
            /\ heap'[self].cls = getTypeToCopyFor(copied[i].o, copied[i].p)
            /\ dicts'[heap'[self].dict] =
                 [broker |-> None, luid |-> NoLuid,
                  x |-> getStateToCopyFor(copied[i].o, copied[i].p), sub |-> <<>>,
                  own |-> None]
            /\ locallyCachedObjects' = locallyCachedObjects]_vars

\* C26, witness: a copy has been reconstructed and holds the state sent.
C26_Witness ==
  /\ last.msg # <<>>
  /\ last.msg[1] \in CopyTags
  /\ last.ok
  /\ heap[last.obj].role = "copy"
  /\ dicts[heap[last.obj].dict].x = getStateToCopyFor("k1", "p1")
  /\ dicts[heap[last.obj].dict].own = None

\* The names a message can reach on a receiver of another kind, or without
\* prefix.
OtherNames(kind, message) ==
  {Prefix(other) \o message : other \in Kinds \ {kind}} \cup {message}

\* C27: whatever message arrives, the method called, if any, is the method
\* <prefix of the receiver's kind><message> of the receiver (of the wrapped
\* object for a ViewPoint): observe_ on a RemoteCache, remote_ on a
\* Referenceable, view_ on the target of a ViewPoint.  A method of the bare
\* name or of the prefix of another kind is never called, and a message that
\* has only such methods fails.
C27_OnlyOwnPrefix ==
  \A i \in DOMAIN dispatched :
    LET d == dispatched[i]
        obj == IF d.kind = "viewpoint" THEN d.rcv.object ELSE d.rcv.self IN
    /\ \A n \in DOMAIN d.out.invoked :
         /\ d.out.invoked[n].method.name = Prefix(d.kind) \o d.message
         /\ d.out.invoked[n].method.owner = obj
         /\ d.out.invoked[n].method.name \notin OtherNames(d.kind, d.message)
    /\ Len(d.out.invoked) <= 1
    /\ ~Has(obj, Prefix(d.kind) \o d.message) =>
         /\ ~d.out.ok
         /\ d.out.invoked = <<>>
         /\ d.out.reply = <<>>

\* C27, witness: a RemoteCache that has remote_own and no observe_own was sent
\* 'own' with no arguments and called nothing; sent 'echo', it called
\* observe_echo.
C27_Witness ==
  \E i, j \in Dispatched("remotecache") :
    /\ dispatched[i].message = "own"
    /\ dispatched[i].args = <<>>
    /\ Accepts(dispatched[i].rcv.self, "remote_own", 0)
    /\ dispatched[i].out.invoked = <<>>
    /\ dispatched[j].out.ok
    /\ dispatched[j].out.invoked[1].method.name = "observe_echo"

\* The tuple is a transmission, full or by reference, of LUID n.
RefersTo(t, n) ==
  \/ t[1] = cached_atom /\ t[2] = n
  \/ t[1] \in TypeTags /\ Len(t) = 3 /\ t[2] = n

\* The tuples embedded in the state of a full-state tuple.
SubOf(t) == IF t[1] \in TypeTags /\ Len(t) = 3 THEN t[3].sub ELSE <<>>

RECURSIVE SeqRefs(_, _)
\* The transmissions of LUID n in a sequence of tuples, embedded ones included.
SeqRefs(seq, n) ==
  IF seq = <<>> THEN 0
  ELSE (IF RefersTo(Head(seq), n) THEN 1 ELSE 0)
         + SeqRefs(SubOf(Head(seq)), n) + SeqRefs(Tail(seq), n)

RECURSIVE StackRefs(_, _, _)
\* The transmissions of LUID n of connection c that are being produced: the
\* serializations in progress that have counted their reference, and the
\* tuples already embedded in their states.
StackRefs(st, c, n) ==
  IF st = <<>> THEN 0
  ELSE (IF Head(st).c = c /\ Head(st).luid = n THEN 1 ELSE 0)
         + (IF Head(st).c = c THEN SeqRefs(Head(st).sub, n) ELSE 0)
         + StackRefs(Tail(st), c, n)

\* The releases of LUID n on their way to the origin.
Releases(c, n) == Cardinality({i \in DOMAIN back[c] : back[c][i] = <<"decache", n>>})

\* C28: for every LUID of a connection, the reference count of the origin is
\* the number of its transmissions being produced or on the wire, plus the
\* proxies the peer holds, plus the releases on their way back; no proxy has
\* sent more than one release and no count is negative.  When no serialization
\* is in progress this is: tuples in flight plus live proxies plus releases in
\* flight.
C28_RefcountBalance ==
  /\ \A c \in Conns : \A n \in Luids :
       /\ remotelyCachedObjects[c][n].refcount >= 0
       /\ remotelyCachedObjects[c][n].refcount =
            StackRefs(stack, c, n) + SeqRefs(wire[c], n)
              + Cardinality(ProxiesHeld(c, n)) + Releases(c, n)
  /\ \A k \in DOMAIN heap : heap[k].notes <= 1

\* The step is the reconstruction of the full state of a LUID with no entry.
ReceivingFull(c) ==
  /\ Receiving(c)
  /\ Head(wire[c])[1] \in TypeTags \cup MergeTags
  /\ locallyCachedObjects[c][Head(wire[c])[2]] = NoObj

\* C29: when RemoteCache.unjellyFor has returned, the instance registered under
\* the LUID and the proxy returned both have the connection as broker and the
\* LUID as luid, whether setCopyableState replaced the attribute set or updated
\* it and whether or not the state has keys named broker and luid; and every
\* entry of an incoming cache is under the key that is its luid.
C29_ProxyBookkeeping ==
  /\ [][\A c \in Conns :
          (ReceivingFull(c) /\ last'.ok)
            => LET luid == Head(wire[c])[2]
                   self == locallyCachedObjects'[c][luid] IN
               /\ self # NoObj
               /\ last'.obj # NoObj
               /\ last'.obj # self
               /\ dicts'[heap'[self].dict].broker = c
               /\ dicts'[heap'[self].dict].luid = luid
               /\ dicts'[heap'[last'.obj].dict].broker = c
               /\ dicts'[heap'[last'.obj].dict].luid = luid]_vars
  /\ [](\A c \in Conns : \A n \in Luids :
          locallyCachedObjects[c][n] # NoObj
            => dicts[heap[locallyCachedObjects[c][n]].dict].luid = n)

\* C29, witness: a full state with keys named broker and luid has been applied
\* by a setCopyableState that updates the attribute set, and the proxy returned
\* records the connection and the LUID of the tuple.
C29_Witness ==
  /\ last.msg # <<>>
  /\ last.ok
  /\ last.msg[1] \in MergeTags
  /\ last.msg[3].x \in KeyedStates
  /\ last.msg[2] # StateLuid(last.msg[3].x)
  /\ dicts[heap[last.obj].dict].x = last.msg[3].x
  /\ dicts[heap[last.obj].dict].luid = last.msg[2]
  /\ dicts[heap[last.obj].dict].broker = last.c

\* The objects reconstructed as RemoteCache without a connection.
Restored == {k \in DOMAIN heap : heap[k].role = "restored"}

\* C30, as stated: without a connection Cacheable.jellyFor and Copyable.jellyFor return the
\* plain instance state: no cache table changes, no LUID is allocated, no
\* observer is made, no state hook is called and nothing goes on a wire; the
\* reconstruction without a connection touches no cache table; and a proxy
\* reconstructed this way has no broker and sends no release when its lifetime
\* ends.
C30_NoConnectionFallback ==
  /\ [][(stack # <<>> /\ Top.c = None /\ stack' # stack)
         => /\ \A c \in Conns : Outgoing(c)' = Outgoing(c)
            /\ wire' = wire
            /\ stack' = SubSeq(stack, 1, Len(stack) - 1)
            /\ calls'[Top.id].result = <<qual(Top.o), jelly(InstanceDict(Top.o), <<>>)>>
            /\ calls'[Top.id].observers = <<>>
            /\ calls'[Top.id].luid = NoLuid]_vars
  /\ [][(Len(copied') > Len(copied) /\ copied'[Len(copied')].c = None)
         => /\ wire' = wire
            /\ \A c \in Conns : Outgoing(c)' = Outgoing(c)
            /\ LET o == copied'[Len(copied')].o IN
               copied'[Len(copied')].tuple = <<qual(o), jelly(InstanceDict(o), <<>>)>>]_vars
  /\ [][(last' # last /\ last'.c = None)
         => /\ last'.ok
            /\ locallyCachedObjects' = locallyCachedObjects
            /\ back' = back
            /\ dicts'[heap'[last'.obj].dict].x = last'.msg[2].x]_vars
  /\ [](\A k \in Restored :
          /\ dicts[heap[k].dict].broker = None
          /\ heap[k].notes = 0)


\* C30, amended: without a connection Cacheable.jellyFor and Copyable.jellyFor
\* return the plain instance state: no cache table changes, no LUID is
\* allocated, no observer is made, no state hook is called and nothing goes on a
\* wire; the reconstruction without a connection touches no cache table; and a
\* proxy reconstructed this way has the broker and the luid its state gives it:
\* none, unless the state has attributes of these names, and with no broker it
\* sends no release when its lifetime ends.
C30_FallbackBrokerFromState ==
  /\ [][(stack # <<>> /\ Top.c = None /\ stack' # stack)
         => /\ \A c \in Conns : Outgoing(c)' = Outgoing(c)
            /\ wire' = wire
            /\ stack' = SubSeq(stack, 1, Len(stack) - 1)
            /\ calls'[Top.id].result = <<qual(Top.o), jelly(InstanceDict(Top.o), <<>>)>>
            /\ calls'[Top.id].observers = <<>>
            /\ calls'[Top.id].luid = NoLuid]_vars
  /\ [][(Len(copied') > Len(copied) /\ copied'[Len(copied')].c = None)
         => /\ wire' = wire
            /\ \A c \in Conns : Outgoing(c)' = Outgoing(c)
            /\ LET o == copied'[Len(copied')].o IN
               copied'[Len(copied')].tuple = <<qual(o), jelly(InstanceDict(o), <<>>)>>]_vars
  /\ [][(last' # last /\ last'.c = None)
         => /\ last'.ok
            /\ locallyCachedObjects' = locallyCachedObjects
            /\ back' = back
            /\ dicts'[heap'[last'.obj].dict].x = last'.msg[2].x]_vars
  /\ [](\A k \in Restored :
          /\ dicts[heap[k].dict].broker = StateBroker(dicts[heap[k].dict].x)
          /\ dicts[heap[k].dict].luid = StateLuid(dicts[heap[k].dict].x)
          /\ (dicts[heap[k].dict].broker = None => heap[k].notes = 0))


\* C30, witness: without a connection a Cacheable whose state hook is
\* overridden and a Copyable have been serialized, a proxy reconstructed from a
\* state without broker has ended its lifetime, and a proxy has been
\* reconstructed from a state with a broker of its own.
C30_Witness ==
  /\ \E j \in DOMAIN calls :
       /\ calls[j].c = None
       /\ calls[j].result # <<>>
       /\ InstanceDict(calls[j].o) # getStateToCopyFor(calls[j].o, calls[j].p)
  /\ \E i \in DOMAIN copied : copied[i].c = None
  /\ \E k \in Restored : ~heap[k].alive /\ dicts[heap[k].dict].broker = None
  /\ \E k \in Restored : dicts[heap[k].dict].broker # None

\* The proxy was made by an unjellyFor that failed to register its instance
\* (DuplicateCacheState): it was not handed out.
Discarded(k) ==
  \E i \in DOMAIN heap :
    /\ heap[i].role = "inst"
    /\ heap[i].dict = heap[k].dict
    /\ dicts[heap[i].dict].broker # None
    /\ ~Registered(i)

\* The proxies handed out on connection c for LUID n.
ProxiesFor(c, n) ==
  {k \in DOMAIN heap :
     /\ heap[k].role = "proxy"
     /\ ~Discarded(k)
     /\ dicts[heap[k].dict].broker = c
     /\ dicts[heap[k].dict].luid = n}

\* C31: the proxies handed out on one connection for one LUID have a single
\* attribute set, compare equal and hash equal; proxies of one connection for
\* different LUIDs do not compare equal.
C31_ProxyEquivalence ==
  \A c \in Conns : \A n, m \in Luids :
    \A k1 \in ProxiesFor(c, n) : \A k2 \in ProxiesFor(c, m) :
      IF n = m
      THEN /\ heap[k1].dict = heap[k2].dict
           /\ RemoteCache_cmp(heap, k1, k2) = 0
           /\ RemoteCache_hash(heap, k1) = RemoteCache_hash(heap, k2)
      ELSE RemoteCache_cmp(heap, k1, k2) # 0

\* The step is the finalization of k with a release that was tried and failed.
ReleaseFailed(k) ==
  /\ k \in DOMAIN heap
  /\ heap[k].alive
  /\ ~heap'[k].alive
  /\ heap[k].role # "copy"
  /\ dicts[heap[k].dict].broker # None
  /\ back' = back

\* C32: when the release operation fails while a proxy is finalized, the
\* failure is logged once and does not leave the finalizer, no release is on
\* its way, and the luid and the broker the proxy records are as they were.
C32_ReleaseFailureContained ==
  /\ [][\A k \in DOMAIN heap :
          ReleaseFailed(k)
            => /\ heap'[k].logged = heap[k].logged + 1
               /\ ~heap'[k].raised
               /\ heap'[k].notes = heap[k].notes
               /\ heap'[k].dict = heap[k].dict
               /\ dicts' = dicts]_vars
  /\ [](\A k \in DOMAIN heap : ~heap[k].raised)

\* C32, witness: a proxy has been finalized with a failing release: the
\* failure is logged, no release was sent and the proxy still records its
\* broker and luid.
C32_Witness ==
  \E k \in DOMAIN heap :
    /\ heap[k].role = "proxy"
    /\ ~heap[k].alive
    /\ heap[k].logged = 1
    /\ heap[k].notes = 0
    /\ dicts[heap[k].dict].broker \in Conns
    /\ dicts[heap[k].dict].luid \in Luids
    /\ back[dicts[heap[k].dict].broker] = <<>>

====
